---- MODULE Spec2Model ----
(***************************************************************************)
(* Model of the fc-blackbox decoder: the body-frame codecs                 *)
(* (src/frame/mod.rs, src/frame/data.rs, src/frame/event.rs), the frame    *)
(* router (src/stream/data.rs), the predictor/history engine               *)
(* (src/stream/predictor.rs), the schema finalisation                      *)
(* (src/stream/header.rs) and the record iterator BlackboxReader::next     *)
(* (src/lib.rs).                                                           *)
(*                                                                         *)
(* Byte slices are sequences of integers 0..255.  A nom IResult is a       *)
(* record whose field t is "Ok", "Error", "Failure" or "Incomplete"; a     *)
(* Rust panic (panic!, unimplemented!, a failed assert_eq!, an index out   *)
(* of bounds) is the result "Panic".  Indices keep the source's 0-based    *)
(* numbering and are shifted by one where a TLA+ sequence is indexed.      *)
(***************************************************************************)
EXTENDS Integers, Sequences, FiniteSets, TLC

\* ---------------------------------------------------------------------
\* nom results
\* ---------------------------------------------------------------------

Ok(rest, val) == [t |-> "Ok", rest |-> rest, val |-> val]

Error(input, code) == [t |-> "Error", input |-> input, code |-> code]

Failure(input, code) == [t |-> "Failure", input |-> input, code |-> code]

Incomplete == [t |-> "Incomplete"]

Panic(msg) == [t |-> "Panic", msg |-> msg]

\* ---------------------------------------------------------------------
\* nom number and byte parsers used by the codecs
\* ---------------------------------------------------------------------

\* 2^16
U16 == 65536

\* two's-complement reinterpretation of an unsigned value of the given width
AsSigned(x, bits) ==
    LET m == x % (2 ^ bits)
    IN  IF m >= 2 ^ (bits - 1) THEN m - 2 ^ bits ELSE m

\* nom::number::streaming::le_u8 : needs more input on an empty slice
le_u8(input) ==
    IF input = <<>> THEN Incomplete ELSE Ok(Tail(input), Head(input))

\* nom::number::complete::be_u8 : an Eof error on an empty slice
be_u8(input) ==
    IF input = <<>> THEN Error(input, "Eof") ELSE Ok(Tail(input), Head(input))

RECURSIVE le_uint(_, _)
le_uint(bytes, n) ==
    IF n = 0 THEN 0 ELSE Head(bytes) + 256 * le_uint(Tail(bytes), n - 1)

\* nom::number::streaming::{le_i8, le_i16, le_i24, le_i32}: little-endian,
\* the sign is the top bit of the last byte
le_int(input, nbytes) ==
    IF Len(input) < nbytes THEN Incomplete
    ELSE Ok(SubSeq(input, nbytes + 1, Len(input)),
            le_uint(input, nbytes - 1)
              + (256 ^ (nbytes - 1)) * AsSigned(input[nbytes], 8))

\* nom::number::streaming::le_f32 ; the float is kept as its four bytes
le_f32(input) ==
    IF Len(input) < 4 THEN Incomplete
    ELSE Ok(SubSeq(input, 5, Len(input)), SubSeq(input, 1, 4))

\* nom::bytes::streaming::take
take(count, input) ==
    IF Len(input) < count THEN Incomplete
    ELSE Ok(SubSeq(input, count + 1, Len(input)), SubSeq(input, 1, count))

\* nom::bytes::streaming::tag : a mismatch within the available bytes is an
\* Error at the tag's first byte, a matching but too short input Incomplete
tag(t, input) ==
    LET n == IF Len(input) < Len(t) THEN Len(input) ELSE Len(t)
    IN  IF \E i \in 1..n : input[i] # t[i] THEN Error(input, "Tag")
        ELSE IF Len(input) >= Len(t)
             THEN Ok(SubSeq(input, Len(t) + 1, Len(input)), t)
             ELSE Incomplete

\* ---------------------------------------------------------------------
\* Varint and sign-extension primitives (src/frame/mod.rs)
\* ---------------------------------------------------------------------

\* the ? operator: an Error, Failure, Incomplete or panic of r is the
\* result, otherwise the computation goes on with r
Try(r, Continue(_)) == IF r.t # "Ok" THEN r ELSE Continue(r)

\* a u32 is kept as its two 16-bit halves
u32(hi, lo) == [hi |-> hi, lo |-> lo]

u32_to_int(x) == x.hi * U16 + x.lo

\* (value as u32) << (position * 7): only the fifth byte (position 4) has
\* bits shifted past bit 31, which are dropped: its low four bits remain
shl_u32(value, position) ==
    IF position < 4
    THEN u32((value * (2 ^ (position * 7))) \div U16, (value * (2 ^ (position * 7))) % U16)
    ELSE u32((value % 16) * (2 ^ 12), 0)

\* res |= shifted: the bits of the shifted value lie above every bit already
\* in res, so the OR is a sum, half by half
or_u32(res, shifted) == u32(res.hi + shifted.hi, res.lo + shifted.lo)

RECURSIVE take_varint_loop_six_bytes(_, _, _)
take_varint_loop_six_bytes(input, position, res) ==
    IF position = 6 THEN Failure(input, "TooLarge")
    ELSE Try(le_u8(input), LAMBDA r :
            IF r.val \div 128 = 0
            THEN Ok(r.rest, or_u32(res, shl_u32(r.val % 128, position)))
            ELSE take_varint_loop_six_bytes(r.rest, position + 1,
                                            or_u32(res, shl_u32(r.val % 128, position))))

RECURSIVE take_varint_loop(_, _, _)
take_varint_loop(input, position, res) ==
    IF position = 5 THEN Failure(input, "TooLarge")
    ELSE Try(le_u8(input), LAMBDA r :
            IF r.val \div 128 = 0
            THEN Ok(r.rest, or_u32(res, shl_u32(r.val % 128, position)))
            ELSE take_varint_loop(r.rest, position + 1,
                                  or_u32(res, shl_u32(r.val % 128, position))))

\* take_varint, the u32 in halves
take_varint_u32(input) == take_varint_loop(input, 0, u32(0, 0))

\* take_varint, the u32 as an integer
take_varint(input) ==
    Try(take_varint_u32(input), LAMBDA r : Ok(r.rest, u32_to_int(r.val)))

\* ((from >> 1) ^ (-((from & 1) as i32)) as u32) as i32 : XOR with all ones
\* is the bitwise complement, -(x) - 1
zigzag_decode(from) ==
    IF from % 2 = 0 THEN from \div 2 ELSE -(from \div 2) - 1

\* x.wrapping_shl(w - nbits).wrapping_shr(w - nbits) on a signed integer of
\* width w; the wrapping shifts take the shift amount modulo w
sign_extend(x, nbits, w) ==
    IF (w - nbits) % w = 0 THEN AsSigned(x, w) ELSE AsSigned(x, nbits)

sign_extend_14bit(word) ==
    IF (word \div 8192) % 2 # 0
    THEN AsSigned((word % 16384) + 49152, 16)
    ELSE word

\* ---------------------------------------------------------------------
\* Field codecs: FieldEncoding::parse (src/frame/mod.rs)
\* A grouped encoding is [e |-> name, n |-> group width] (n = 0 when the
\* encoding carries no width); a decoded Field is [k |-> kind, v |-> value]
\* ---------------------------------------------------------------------

Enc(e, n) == [e |-> e, n |-> n]

SignedTriple(v1, v2, v3) == [k |-> "SignedTriple", v |-> << v1, v2, v3 >>]

\* the width reader of Tag2_3S32 mode 11: i8, i16, i24 or i32
read_value_s32(selector, input) == le_int(input, selector + 1)

parse_Tag2_3S32_three_following(input) ==
    Try(be_u8(input), LAMBDA r1 :
        CASE r1.val \div 64 = 0 ->
                Ok(r1.rest, SignedTriple(sign_extend(r1.val \div 16, 2, 32),
                                         sign_extend(r1.val \div 4, 2, 32),
                                         sign_extend(r1.val, 2, 32)))
          [] r1.val \div 64 = 1 ->
                Try(be_u8(r1.rest), LAMBDA r2 :
                    Ok(r2.rest, SignedTriple(sign_extend(r1.val, 4, 32),
                                             sign_extend(r2.val \div 16, 4, 32),
                                             sign_extend(r2.val, 4, 32))))
          [] r1.val \div 64 = 2 ->
                Try(be_u8(r1.rest), LAMBDA r2 :
                    Try(be_u8(r2.rest), LAMBDA r3 :
                        Try(be_u8(r3.rest), LAMBDA r4 :
                            Ok(r4.rest, SignedTriple(sign_extend(r2.val, 6, 32),
                                                     sign_extend(r3.val, 6, 32),
                                                     sign_extend(r4.val, 6, 32))))))
          [] r1.val \div 64 = 3 ->
                Try(read_value_s32(r1.val % 4, r1.rest), LAMBDA v1 :
                    Try(read_value_s32((r1.val \div 4) % 4, v1.rest), LAMBDA v2 :
                        Try(read_value_s32((r1.val \div 16) % 4, v2.rest), LAMBDA v3 :
                            Ok(v3.rest, SignedTriple(v1.val, v2.val, v3.val))))))

parse_Tag2_3S32_selectors_from_top(input) ==
    Try(be_u8(input), LAMBDA r1 :
        CASE r1.val \div 64 = 0 ->
                Ok(r1.rest, SignedTriple(sign_extend(r1.val \div 16, 2, 32),
                                         sign_extend(r1.val \div 4, 2, 32),
                                         sign_extend(r1.val, 2, 32)))
          [] r1.val \div 64 = 1 ->
                Try(be_u8(r1.rest), LAMBDA r2 :
                    Ok(r2.rest, SignedTriple(sign_extend(r1.val, 4, 32),
                                             sign_extend(r2.val \div 16, 4, 32),
                                             sign_extend(r2.val, 4, 32))))
          [] r1.val \div 64 = 2 ->
                Try(be_u8(r1.rest), LAMBDA r2 :
                    Try(be_u8(r2.rest), LAMBDA r3 :
                        Ok(r3.rest, SignedTriple(sign_extend(r1.val, 6, 32),
                                                 sign_extend(r2.val, 6, 32),
                                                 sign_extend(r3.val, 6, 32)))))
          [] r1.val \div 64 = 3 ->
                Try(read_value_s32((r1.val \div 16) % 4, r1.rest), LAMBDA v1 :
                    Try(read_value_s32((r1.val \div 4) % 4, v1.rest), LAMBDA v2 :
                        Try(read_value_s32(r1.val % 4, v2.rest), LAMBDA v3 :
                            Ok(v3.rest, SignedTriple(v1.val, v2.val, v3.val))))))

parse_Tag2_3S32(input) ==
    Try(be_u8(input), LAMBDA r1 :
        CASE r1.val \div 64 = 0 ->
                Ok(r1.rest, SignedTriple(sign_extend(r1.val \div 16, 2, 32),
                                         sign_extend(r1.val \div 4, 2, 32),
                                         sign_extend(r1.val, 2, 32)))
          [] r1.val \div 64 = 1 ->
                Try(be_u8(r1.rest), LAMBDA r2 :
                    Ok(r2.rest, SignedTriple(sign_extend(r1.val, 4, 32),
                                             sign_extend(r2.val \div 16, 4, 32),
                                             sign_extend(r2.val, 4, 32))))
          [] r1.val \div 64 = 2 ->
                Try(be_u8(r1.rest), LAMBDA r2 :
                    Try(be_u8(r2.rest), LAMBDA r3 :
                        Ok(r3.rest, SignedTriple(sign_extend(r1.val, 6, 32),
                                                 sign_extend(r2.val, 6, 32),
                                                 sign_extend(r3.val, 6, 32)))))
          [] r1.val \div 64 = 3 ->
                Try(read_value_s32(r1.val % 4, r1.rest), LAMBDA v1 :
                    Try(read_value_s32((r1.val \div 4) % 4, v1.rest), LAMBDA v2 :
                        Try(read_value_s32((r1.val \div 16) % 4, v2.rest), LAMBDA v3 :
                            Ok(v3.rest, SignedTriple(v1.val, v2.val, v3.val))))))

n_nibbles(selector) ==
    CASE selector = 0 -> 0
      [] selector = 1 -> 1
      [] selector = 2 -> 2
      [] selector = 3 -> 4

\* one nibble of the payload, high nibble of each byte first
nibble_at(bytes, read_pos_nibbles_msn) ==
    IF read_pos_nibbles_msn % 2 = 0
    THEN bytes[(read_pos_nibbles_msn \div 2) + 1] \div 16
    ELSE bytes[(read_pos_nibbles_msn \div 2) + 1] % 16

RECURSIVE read_nibbles(_, _, _, _)
read_nibbles(v, read_pos_nibbles_msn, write_pos_bits_lsb, bytes) ==
    IF write_pos_bits_lsb = 0 THEN v
    ELSE read_nibbles(((v * 16) % 65536) + nibble_at(bytes, read_pos_nibbles_msn),
                      read_pos_nibbles_msn + 1, write_pos_bits_lsb - 4, bytes)

\* the nibble reader of Tag8_4S16
read_value_s16(current_nibble, nibbles_to_read, bytes) ==
    sign_extend(read_nibbles(0, current_nibble, nibbles_to_read * 4, bytes),
                nibbles_to_read * 4, 16)

\* the nibble counts of the four selectors of a Tag8_4S16 header byte
nibbles_of(selectors) ==
    << n_nibbles(selectors % 4), n_nibbles((selectors \div 4) % 4),
       n_nibbles((selectors \div 16) % 4), n_nibbles((selectors \div 64) % 4) >>

quadruple(nibbles, bytes) ==
    [k |-> "SignedQuadruple",
     v |-> << read_value_s16(0, nibbles[1], bytes),
              read_value_s16(nibbles[1], nibbles[2], bytes),
              read_value_s16(nibbles[1] + nibbles[2], nibbles[3], bytes),
              read_value_s16(nibbles[1] + nibbles[2] + nibbles[3], nibbles[4], bytes) >>]

total_bytes(nibbles) == ((nibbles[1] + nibbles[2] + nibbles[3] + nibbles[4]) + 1) \div 2

parse_Tag8_4S16(input) ==
    Try(be_u8(input), LAMBDA r1 :
        Try(take(total_bytes(nibbles_of(r1.val)), r1.rest), LAMBDA rb :
            Ok(rb.rest, quadruple(nibbles_of(r1.val), rb.val))))

\* for i in 0..fields_n: a varint for every set selector bit
RECURSIVE svb_loop(_, _, _, _, _)
svb_loop(input, selectors, i, fields_n, values) ==
    IF i = fields_n
    THEN Ok(input, [k |-> "SignedOctuple", v |-> values, n |-> fields_n])
    ELSE IF (selectors \div (2 ^ i)) % 2 # 0
         THEN Try(take_varint(input), LAMBDA r :
                  svb_loop(r.rest, selectors, i + 1, fields_n,
                           [values EXCEPT ![i + 1] = zigzag_decode(r.val)]))
         ELSE svb_loop(input, selectors, i + 1, fields_n, values)

parse_Tag8_8SVB(fields_n, input) ==
    IF fields_n = 1
    THEN Try(take_varint(input), LAMBDA r :
             Ok(r.rest, [k |-> "SignedOctuple",
                         v |-> << zigzag_decode(r.val), 0, 0, 0, 0, 0, 0, 0 >>,
                         n |-> fields_n]))
    ELSE Try(be_u8(input), LAMBDA r :
             svb_loop(r.rest, r.val, 0, fields_n, << 0, 0, 0, 0, 0, 0, 0, 0 >>))

\* the Field a varint codec makes of its varint
varint_field(e, varint) ==
    CASE e = "UnsignedVB" -> [k |-> "Unsigned", v |-> u32_to_int(varint)]
      [] e = "SignedVB" -> [k |-> "Signed", v |-> zigzag_decode(u32_to_int(varint))]
      [] e = "Negative14BitVB" ->
            \* varint as u16 : the low half
            [k |-> "Signed", v |-> -(sign_extend_14bit(varint.lo))]

FieldEncoding_parse(enc, input) ==
    CASE enc.e = "Null" -> Ok(input, [k |-> "Unsigned", v |-> 0])
      [] enc.e \in {"UnsignedVB", "SignedVB", "Negative14BitVB"} ->
            Try(take_varint_u32(input), LAMBDA r : Ok(r.rest, varint_field(enc.e, r.val)))
      [] enc.e = "Tag2_3S32" -> parse_Tag2_3S32(input)
      [] enc.e = "Tag8_4S16" -> parse_Tag8_4S16(input)
      [] enc.e = "Tag8_8SVB" -> parse_Tag8_8SVB(enc.n, input)
      [] OTHER -> Panic("unimplemented")

\* ---------------------------------------------------------------------
\* Frame payloads (src/frame/data.rs)
\* ---------------------------------------------------------------------

\* the values one decoded Field pushes onto the residual vector
field_values(field) ==
    CASE field.k \in {"Signed", "Unsigned"} -> << field.v >>
      [] field.k \in {"SignedTriple", "SignedQuadruple"} -> field.v
      [] field.k = "SignedOctuple" -> SubSeq(field.v, 1, field.n)

RECURSIVE payload_loop(_, _, _, _)
payload_loop(field_encodings, i, input, ret) ==
    IF i > Len(field_encodings) THEN Ok(input, ret)
    ELSE Try(FieldEncoding_parse(field_encodings[i], input), LAMBDA r :
             payload_loop(field_encodings, i + 1, r.rest, ret \o field_values(r.val)))

parse_owned_frame_payload(field_encodings, input) ==
    payload_loop(field_encodings, 1, input, << >>)

\* parse_owned_iframe, _pframe, _sframe, _gframe, _hframe: the same body
\* with the frame's letter as the tag
parse_owned_frame(letter, kind, field_encodings, input) ==
    IF field_encodings = << >> THEN Failure(input, "Verify")
    ELSE Try(tag(<< letter >>, input), LAMBDA rt :
             Try(parse_owned_frame_payload(field_encodings, rt.rest), LAMBDA rp :
                 Ok(rp.rest, [kind |-> kind, buf |-> rp.val])))

\* ---------------------------------------------------------------------
\* Event sub-parser (src/frame/event.rs)
\* ---------------------------------------------------------------------

ByteE == 69

\* the literal "End of log\0"
EndOfLogTag == << 69, 110, 100, 32, 111, 102, 32, 108, 111, 103, 0 >>

EvOk(rest, frame) == Ok(rest, [kind |-> "Event", event |-> frame])

\* the payload of an event with one varint (codes 0 and 15) or two (14, 30)
one_varint(input, Frame(_)) ==
    Try(take_varint(input), LAMBDA r : EvOk(r.rest, Frame(r.val)))

two_varints(input, Frame(_, _)) ==
    Try(take_varint(input), LAMBDA r1 :
        Try(take_varint(r1.rest), LAMBDA r2 : EvOk(r2.rest, Frame(r1.val, r2.val))))

in_flight_adjustment(input) ==
    Try(be_u8(input), LAMBDA rf :
        IF rf.val \div 128 # 0
        THEN Try(le_f32(rf.rest), LAMBDA r :
                 EvOk(r.rest, [type |-> "InFlightAdjustment", function |-> rf.val % 128,
                               adjustment |-> << "Float", r.val >>]))
        ELSE Try(take_varint(rf.rest), LAMBDA r :
                 EvOk(r.rest, [type |-> "InFlightAdjustment", function |-> rf.val,
                               adjustment |-> << "Int", zigzag_decode(r.val) >>])))

parse_event(input) ==
    Try(tag(<< ByteE >>, input), LAMBDA rt :
        Try(le_u8(rt.rest), LAMBDA rc :
            CASE rc.val = 0 ->
                    one_varint(rc.rest, LAMBDA time : [type |-> "SyncBeep", time |-> time])
              [] rc.val = 13 -> in_flight_adjustment(rc.rest)
              [] rc.val = 14 ->
                    two_varints(rc.rest, LAMBDA iteration, time :
                        [type |-> "LoggingResume", iteration |-> iteration, time |-> time])
              [] rc.val = 15 ->
                    one_varint(rc.rest, LAMBDA reason : [type |-> "Disarm", reason |-> reason])
              [] rc.val = 30 ->
                    two_varints(rc.rest, LAMBDA flags, old_flags :
                        [type |-> "FlightMode", flags |-> flags, old_flags |-> old_flags])
              [] rc.val = 255 ->
                    Try(tag(EndOfLogTag, rc.rest), LAMBDA r :
                        EvOk(r.rest, [type |-> "EndOfLog"]))
              [] OTHER -> Panic("unimplemented event code")))

parse_body_frame(input) == parse_event(input)

\* ---------------------------------------------------------------------
\* Frame router (src/stream/data.rs)
\* ---------------------------------------------------------------------

ByteI == 73

ByteP == 80

ByteS == 83

ByteG == 71

ByteH == 72

BytePadding == 255

\* the BodyFrame variant and the encoding list of a data frame's letter
frame_kind(letter) ==
    CASE letter = ByteI -> "IFrame"
      [] letter = ByteP -> "PFrame"
      [] letter = ByteS -> "SFrame"
      [] letter = ByteG -> "GFrame"
      [] letter = ByteH -> "HFrame"

frame_encodings(header, letter) ==
    CASE letter = ByteI -> header.i_field_encodings
      [] letter = ByteP -> header.p_field_encodings
      [] letter = ByteS -> header.s_field_encodings
      [] letter = ByteG -> header.g_field_encodings
      [] letter = ByteH -> header.h_field_encodings

\* input[0] is read before anything else: an empty slice is an index out of
\* bounds
parse_next_frame(header, input) ==
    IF input = << >> THEN Panic("index out of bounds")
    ELSE CASE input[1] \in {ByteI, ByteP, ByteS, ByteG, ByteH} ->
                parse_owned_frame(input[1], frame_kind(input[1]),
                                  frame_encodings(header, input[1]), input)
           [] input[1] = ByteE -> parse_body_frame(input)
           [] input[1] = BytePadding -> Error(input, "Eof")
           [] OTHER -> Panic("Unknown frame")

\* ---------------------------------------------------------------------
\* Schema finalisation: Header::try_from (src/stream/header.rs)
\* A field name is a sequence of one-character strings.
\* ---------------------------------------------------------------------

Min(a, b) == IF a < b THEN a ELSE b

\* the maximum width of a grouped tag encoding, 0 for an encoding that is
\* never grouped
group_max(raw) ==
    CASE raw = "Tag8_8SVB" -> 8
      [] raw = "Tag2_3S32" -> 3
      [] raw = "Tag2_3SVariable" -> 3
      [] raw = "Tag8_4S16" -> 4
      [] OTHER -> 0

\* add_encoding that keeps widening a group that has reached its maximum
add_encoding_no_maximum(encodings, new_encoding) ==
    LET max == group_max(new_encoding)
        last == Len(encodings)
    IN  IF max > 0 /\ last > 0 /\ encodings[last].e = new_encoding
        THEN [encodings EXCEPT ![last] = Enc(new_encoding, encodings[last].n + 1)]
        ELSE IF max > 0 THEN Append(encodings, Enc(new_encoding, 1))
        ELSE Append(encodings, Enc(new_encoding, 0))

add_encoding(encodings, new_encoding) ==
    LET max == group_max(new_encoding)
        last == Len(encodings)
    IN  IF max > 0 /\ last > 0 /\ encodings[last].e = new_encoding
           /\ encodings[last].n # max
        THEN [encodings EXCEPT ![last] = Enc(new_encoding, encodings[last].n + 1)]
        ELSE IF max > 0 THEN Append(encodings, Enc(new_encoding, 1))
        ELSE Append(encodings, Enc(new_encoding, 0))

\* add_encoding over the first n entries of a raw encoding list
RECURSIVE group_encodings(_, _)
group_encodings(raw, n) ==
    IF n = 0 THEN << >>
    ELSE add_encoding(group_encodings(raw, n - 1), raw[n])

\* ip_fields[name].ix : the HashMap keeps the last field inserted under a name
field_index(names, n, name) ==
    IF \E i \in 1..n : names[i] = name
    THEN (CHOOSE i \in 1..n : names[i] = name /\ \A j \in (i + 1)..n : names[j] # name) - 1
    ELSE -1

\* find_position(|f| f.name == name) over ip_fields_in_order: the first match
find_position(names, n, name) ==
    IF \E i \in 1..n : names[i] = name
    THEN (CHOOSE i \in 1..n : names[i] = name /\ \A j \in 1..(i - 1) : names[j] # name) - 1
    ELSE -1

Name_loopIteration == << "l", "o", "o", "p", "I", "t", "e", "r", "a", "t", "i", "o", "n" >>

Name_time == << "t", "i", "m", "e" >>

Name_motor0 == << "m", "o", "t", "o", "r", "[", "0", "]" >>

PanicPredictor == [k |-> "Panic"]

\* AnyIPredictor::new
AnyIPredictor_new(predictor, settings, names, n_fields, field_ix) ==
    CASE predictor = "None" -> [k |-> "AddConstant", base |-> 0, field_ix |-> field_ix]
      [] predictor = "Around1500" ->
            [k |-> "AddConstant", base |-> 1500, field_ix |-> field_ix]
      [] predictor \in {"MinThrottle", "MinMotor", "VBatRef"} ->
            LET key == CASE predictor = "MinThrottle" -> "minthrottle"
                         [] predictor = "MinMotor" -> "motorOutput"
                         [] predictor = "VBatRef" -> "vbatref"
            IN  IF key \in DOMAIN settings
                THEN [k |-> "AddConstant", base |-> settings[key], field_ix |-> field_ix]
                ELSE PanicPredictor
      [] predictor = "Motor0" ->
            IF field_index(names, n_fields, Name_motor0) >= 0
            THEN [k |-> "AddField",
                  base_field_ix |-> field_index(names, n_fields, Name_motor0),
                  field_ix |-> field_ix]
            ELSE PanicPredictor
      [] OTHER -> PanicPredictor

\* num_rational::Ratio<u16>
RECURSIVE gcd(_, _)
gcd(a, b) == IF b = 0 THEN a ELSE gcd(b, a % b)

Ratio_new(numer, denom) ==
    LET g == gcd(numer, denom)
    IN  [numer |-> numer \div g, denom |-> denom \div g]

Ratio_recip(r) == [numer |-> r.denom, denom |-> r.numer]

\* u16 arithmetic as a build without overflow checks computes it
u16_wrap(x) == x % U16

\* Integer::lcm of two non-zero u16 : self * (other / gcd)
u16_lcm(a, b) == u16_wrap(a * (b \div gcd(a, b)))

\* the numerator and the denominator that Ratio += hands to Ratio::new
Ratio_add_terms(a, b) ==
    IF a.denom = b.denom
    THEN [numer |-> a.numer + b.numer, denom |-> a.denom, overflow |-> FALSE]
    ELSE LET lcm == u16_lcm(a.denom, b.denom)
             lhs_numer == a.numer * (lcm \div a.denom)
             rhs_numer == b.numer * (lcm \div b.denom)
         IN  [numer |-> u16_wrap(lhs_numer) + u16_wrap(rhs_numer), denom |-> lcm,
              overflow |-> \/ a.denom * (b.denom \div gcd(a.denom, b.denom)) >= U16
                           \/ lhs_numer >= U16
                           \/ rhs_numer >= U16]

\* one of the u16 operations of Ratio += leaves the range of u16: a panic
\* in a build with overflow checks
Ratio_add_overflows(a, b) ==
    Ratio_add_terms(a, b).overflow \/ Ratio_add_terms(a, b).numer >= U16

\* Ratio += in a build without overflow checks
Ratio_add(a, b) ==
    Ratio_new(u16_wrap(Ratio_add_terms(a, b).numer), Ratio_add_terms(a, b).denom)

Ratio_to_integer(r) == r.numer \div r.denom

IncPredictor_new(field_ix, p_interval) ==
    LET increment == Ratio_recip(p_interval)
    IN  [k |-> "Inc", field_ix |-> field_ix, increment |-> increment,
         running_sum |-> Ratio_new(0, increment.denom),
         base |-> 0, expected_value |-> 0]

\* AnyPPredictor::new
AnyPPredictor_new(predictor, p_interval, field_ix) ==
    CASE predictor = "None" -> [k |-> "None", field_ix |-> field_ix]
      [] predictor = "Previous" -> [k |-> "Previous", field_ix |-> field_ix]
      [] predictor = "Increment" -> IncPredictor_new(field_ix, p_interval)
      [] predictor = "StraightLine" -> [k |-> "StraightLine", field_ix |-> field_ix]
      [] predictor = "Average2" -> [k |-> "Average", field_ix |-> field_ix]
      [] OTHER -> PanicPredictor

\* AnyGPredictor::new
AnyGPredictor_new(predictor, field_ix, index, names, n_fields) ==
    CASE predictor = "None" -> [k |-> "None", field_ix |-> field_ix]
      [] predictor = "HomeCoordinates" ->
            [k |-> "HomeCoordinates", field_ix |-> field_ix, gnss_home_ix |-> index]
      [] predictor = "LastMainFrameTime" ->
            IF field_index(names, n_fields, Name_time) >= 0
            THEN [k |-> "LastMainFrameTime", field_ix |-> field_ix,
                  time_ix |-> field_index(names, n_fields, Name_time)]
            ELSE PanicPredictor
      [] OTHER -> PanicPredictor

\* char::to_digit(10), -1 for a character that is no decimal digit
to_digit(c) ==
    CASE c = "0" -> 0 [] c = "1" -> 1 [] c = "2" -> 2 [] c = "3" -> 3
      [] c = "4" -> 4 [] c = "5" -> 5 [] c = "6" -> 6 [] c = "7" -> 7
      [] c = "8" -> 8 [] c = "9" -> 9 [] OTHER -> -1

\* the digit after the first '[' of a G field name, 0 when there is none
sub_ix(name) ==
    IF \E i \in 1..Len(name) : name[i] = "["
    THEN LET b == CHOOSE i \in 1..Len(name) :
                      name[i] = "[" /\ \A j \in 1..(i - 1) : name[j] # "["
         IN  IF b < Len(name) /\ to_digit(name[b + 1]) >= 0
             THEN to_digit(name[b + 1]) ELSE 0
    ELSE 0

\* Header::try_from; the izip! loops stop at the shortest of their lists
Header_try_from(builder) ==
    LET n_ip == Min(Min(Len(builder.i_field_names), Len(builder.i_field_signedness)),
                    Min(Len(builder.i_field_encoding), Len(builder.p_field_encoding)))
        n_s == Min(Min(Len(builder.s_field_names), Len(builder.s_field_signedness)),
                   Min(Len(builder.s_field_encoding), Len(builder.s_field_predictors)))
        n_g == Min(Min(Len(builder.g_field_names), Len(builder.g_field_signedness)),
                   Min(Len(builder.g_field_encoding), Len(builder.g_field_predictors)))
        n_h == Min(Min(Len(builder.h_field_names), Len(builder.h_field_signedness)),
                   Min(Len(builder.h_field_encoding), Len(builder.h_field_predictors)))
    IN  [p_interval |-> builder.p_interval,
         other_headers |-> builder.other_headers,
         ip_fields_in_order |-> SubSeq(builder.i_field_names, 1, n_ip),
         s_fields_in_order |-> SubSeq(builder.s_field_names, 1, n_s),
         g_fields_in_order |-> SubSeq(builder.g_field_names, 1, n_g),
         i_field_encodings |-> group_encodings(builder.i_field_encoding, n_ip),
         p_field_encodings |-> group_encodings(builder.p_field_encoding, n_ip),
         s_field_encodings |-> group_encodings(builder.s_field_encoding, n_s),
         g_field_encodings |-> group_encodings(builder.g_field_encoding, n_g),
         h_field_encodings |-> group_encodings(builder.h_field_encoding, n_h),
         i_field_predictors |->
            [ix \in 1..Len(builder.i_field_predictors) |->
                AnyIPredictor_new(builder.i_field_predictors[ix], builder.other_headers,
                                  builder.i_field_names, n_ip, ix - 1)],
         p_field_predictors |->
            [ix \in 1..Len(builder.p_field_predictors) |->
                AnyPPredictor_new(builder.p_field_predictors[ix],
                                  builder.p_interval, ix - 1)],
         g_field_predictors |->
            [ix \in 1..n_g |->
                AnyGPredictor_new(builder.g_field_predictors[ix], ix - 1,
                                  sub_ix(builder.g_field_names[ix]),
                                  builder.i_field_names, n_ip)],
         h_field_predictors |->
            [ix \in 1..n_h |->
                IF builder.h_field_predictors[ix] = "None"
                THEN [k |-> "None", field_ix |-> ix - 1] ELSE PanicPredictor]]

\* a predictor constructor, or the assertion on the H predictors, panicked
Header_panics(header) ==
    \/ \E i \in 1..Len(header.i_field_predictors) : header.i_field_predictors[i].k = "Panic"
    \/ \E i \in 1..Len(header.p_field_predictors) : header.p_field_predictors[i].k = "Panic"
    \/ \E i \in 1..Len(header.g_field_predictors) : header.g_field_predictors[i].k = "Panic"
    \/ \E i \in 1..Len(header.h_field_predictors) : header.h_field_predictors[i].k = "Panic"

\* ---------------------------------------------------------------------
\* History buffers (src/stream/predictor.rs)
\* ---------------------------------------------------------------------

Zeros(cap) == [i \in 1..cap |-> 0]

History_with_size(cap) ==
    [history |-> << Zeros(cap), Zeros(cap) >>, current |-> Zeros(cap),
     previous_2_ix |-> 0, previous_ix |-> 1]

GNSSHistory_with_size(cap) ==
    [gnss_home |-> << 0, 0 >>, history |-> History_with_size(cap)]

History_values(h) == h.history[h.previous_ix + 1]

\* History::state : the Snapshot's read-only slices
History_previous(h) == h.history[h.previous_ix + 1]

History_previous_2(h) == h.history[h.previous_2_ix + 1]

\* advance that overwrites the previous slot without swapping the two slots
History_advance_no_swap(h) ==
    [h EXCEPT !.history[h.previous_ix + 1] = h.current]

History_advance(h) ==
    LET swapped == [h EXCEPT !.previous_ix = h.previous_2_ix,
                             !.previous_2_ix = h.previous_ix]
    IN  [swapped EXCEPT !.history[swapped.previous_ix + 1] = h.current]

\* advance_reset that overwrites the previous slot only
History_advance_reset_previous_only(h) ==
    [h EXCEPT !.history[h.previous_ix + 1] = h.current]

History_advance_reset(h) ==
    LET first == [h EXCEPT !.history[h.previous_2_ix + 1] = h.current]
    IN  [first EXCEPT !.history[h.previous_ix + 1] = h.current]

\* ---------------------------------------------------------------------
\* Predictors (src/stream/predictor.rs)
\* ---------------------------------------------------------------------

\* Rust's integer division truncates toward zero
TruncDiv(a, b) == IF a >= 0 THEN a \div b ELSE -((-a) \div b)

\* AnyIPredictor::predict : the new current vector
\* AnyIPredictor::predict storing the residual alone
IPredictor_predict_residual_only(p, value, current) ==
    [current EXCEPT ![p.field_ix + 1] = value]

IPredictor_predict(p, value, current) ==
    CASE p.k = "AddConstant" -> [current EXCEPT ![p.field_ix + 1] = p.base + value]
      [] p.k = "AddField" ->
            [current EXCEPT ![p.field_ix + 1] = current[p.base_field_ix + 1] + value]

IncPredictor_predict(p, current) ==
    LET resync == current[p.field_ix + 1] # p.expected_value
        base == IF resync THEN current[p.field_ix + 1] ELSE p.base
        sum0 == IF resync THEN Ratio_new(0, p.increment.denom) ELSE p.running_sum
        running_sum == Ratio_add(sum0, p.increment)
        current_value == base + Ratio_to_integer(running_sum)
    IN  [pred |-> [p EXCEPT !.base = base, !.running_sum = running_sum,
                            !.expected_value = current_value],
         current |-> [current EXCEPT ![p.field_ix + 1] = current_value]]

\* self.running_sum += self.increment overflows u16
IncPredictor_overflows(p, current) ==
    Ratio_add_overflows(IF current[p.field_ix + 1] # p.expected_value
                        THEN Ratio_new(0, p.increment.denom) ELSE p.running_sum,
                        p.increment)

\* AnyPPredictor::predict : the predictor after the call and the new current
\* AnyPPredictor::predict with the average rounded down instead of toward zero
PPredictor_predict_floor_average(p, value, previous_2, previous, current) ==
    CASE p.k = "None" ->
            [pred |-> p, current |-> [current EXCEPT ![p.field_ix + 1] = value]]
      [] p.k = "Previous" ->
            [pred |-> p,
             current |-> [current EXCEPT ![p.field_ix + 1] =
                             previous[p.field_ix + 1] + value]]
      [] p.k = "Inc" -> IncPredictor_predict(p, current)
      [] p.k = "StraightLine" ->
            [pred |-> p,
             current |-> [current EXCEPT ![p.field_ix + 1] =
                             (previous[p.field_ix + 1] - previous_2[p.field_ix + 1]
                                + previous[p.field_ix + 1]) + value]]
      [] p.k = "Average" ->
            [pred |-> p,
             current |-> [current EXCEPT ![p.field_ix + 1] =
                             ((previous[p.field_ix + 1]
                                 + previous_2[p.field_ix + 1]) \div 2) + value]]

PPredictor_predict(p, value, previous_2, previous, current) ==
    CASE p.k = "None" ->
            [pred |-> p, current |-> [current EXCEPT ![p.field_ix + 1] = value]]
      [] p.k = "Previous" ->
            [pred |-> p,
             current |-> [current EXCEPT ![p.field_ix + 1] =
                             previous[p.field_ix + 1] + value]]
      [] p.k = "Inc" -> IncPredictor_predict(p, current)
      [] p.k = "StraightLine" ->
            [pred |-> p,
             current |-> [current EXCEPT ![p.field_ix + 1] =
                             (previous[p.field_ix + 1] - previous_2[p.field_ix + 1]
                                + previous[p.field_ix + 1]) + value]]
      [] p.k = "Average" ->
            [pred |-> p,
             current |-> [current EXCEPT ![p.field_ix + 1] =
                             TruncDiv(previous[p.field_ix + 1]
                                        + previous_2[p.field_ix + 1], 2) + value]]

\* AnyGPredictor::predict : the new current vector of the GNSS history
GPredictor_predict(p, value, current, ip_current, gnss_home) ==
    CASE p.k = "None" -> [current EXCEPT ![p.field_ix + 1] = value]
      [] p.k = "HomeCoordinates" ->
            [current EXCEPT ![p.field_ix + 1] = gnss_home[p.gnss_home_ix + 1] + value]
      [] p.k = "LastMainFrameTime" ->
            [current EXCEPT ![p.field_ix + 1] = ip_current[p.time_ix + 1] + value]

\* gnss_home[self.gnss_home_ix] is out of bounds for an index above 1
GPredictor_panics(p) == p.k = "HomeCoordinates" /\ p.gnss_home_ix > 1

\* ---------------------------------------------------------------------
\* The i64 arithmetic of the P predictors at its width
\* (src/stream/predictor.rs 373-394).  An i64 is the sequence of its four
\* 16-bit limbs, least significant first, in two's complement.
\* ---------------------------------------------------------------------

\* the i64 of an integer between -2^31 and 2^31 - 1
i64(n) ==
    << n % U16, (n \div U16) % U16,
       IF n < 0 THEN U16 - 1 ELSE 0, IF n < 0 THEN U16 - 1 ELSE 0 >>

\* limb by limb with the carry, the carry out of the last limb dropped
RECURSIVE add_limbs(_, _, _)
add_limbs(a, b, carry) ==
    IF a = << >> THEN << >>
    ELSE << (Head(a) + Head(b) + carry) % U16 >>
            \o add_limbs(Tail(a), Tail(b), (Head(a) + Head(b) + carry) \div U16)

\* a + b and a - b in a build without overflow checks
i64_wrapping_add(a, b) == add_limbs(a, b, 0)

i64_wrapping_sub(a, b) == add_limbs(a, [i \in 1..Len(b) |-> (U16 - 1) - b[i]], 1)

i64_is_negative(a) == a[Len(a)] >= U16 \div 2

\* the sum or the difference leaves the range of i64: a panic in a build
\* with overflow checks
i64_add_overflows(a, b) ==
    /\ i64_is_negative(a) = i64_is_negative(b)
    /\ i64_is_negative(i64_wrapping_add(a, b)) # i64_is_negative(a)

i64_sub_overflows(a, b) ==
    /\ i64_is_negative(a) # i64_is_negative(b)
    /\ i64_is_negative(i64_wrapping_sub(a, b)) # i64_is_negative(a)

\* a >> 1 on an i64: the sign bit is kept
i64_shr1(a) ==
    [i \in 1..Len(a) |->
        (a[i] \div 2)
          + (IF i < Len(a) THEN (a[i + 1] % 2) * (U16 \div 2)
             ELSE IF i64_is_negative(a) THEN U16 \div 2 ELSE 0)]

\* a / 2 on an i64: the quotient is rounded toward zero
i64_div2(a) ==
    IF i64_is_negative(a) THEN i64_shr1(i64_wrapping_add(a, i64(1))) ELSE i64_shr1(a)

\* StraightLinePredictor::predict : the value written to current, and
\* whether one of its three operations overflows
StraightLinePredictor_predict(value, previous_2, previous) ==
    LET diff == i64_wrapping_sub(previous, previous_2)
        next == i64_wrapping_add(diff, previous)
    IN  [v |-> i64_wrapping_add(next, value),
         overflow |-> \/ i64_sub_overflows(previous, previous_2)
                      \/ i64_add_overflows(diff, previous)
                      \/ i64_add_overflows(next, value)]

\* AveragePredictor::predict
AveragePredictor_predict(value, previous_2, previous) ==
    LET avg == i64_div2(i64_wrapping_add(previous, previous_2))
    IN  [v |-> i64_wrapping_add(avg, value),
         overflow |-> \/ i64_add_overflows(previous, previous_2)
                      \/ i64_add_overflows(avg, value)]

\* ---------------------------------------------------------------------
\* LogProcessor (src/stream/predictor.rs)
\* ---------------------------------------------------------------------

\* the build: TRUE when an integer overflow panics (overflow checks on, as in
\* a debug build), FALSE when it wraps (a release build)
VARIABLE overflow_checks

LogProcessor_new(header) ==
    [ip_history |-> History_with_size(Len(header.i_field_predictors)),
     gnss_history |-> GNSSHistory_with_size(Len(header.g_field_predictors)),
     i_predictors |-> header.i_field_predictors,
     p_predictors |-> header.p_field_predictors,
     g_predictors |-> header.g_field_predictors]

\* for (in_value, predictor) in buf.zip(i_predictors)
RECURSIVE i_loop(_, _, _, _)
i_loop(buf, predictors, i, current) ==
    IF i > Len(buf) THEN current
    ELSE i_loop(buf, predictors, i + 1,
                IPredictor_predict(predictors[i], buf[i], current))

\* for (in_value, predictor) in buf.zip(p_predictors.iter_mut())
\* overflow: one of the calls so far overflowed
RECURSIVE p_loop(_, _, _, _, _, _, _)
p_loop(buf, predictors, i, previous_2, previous, current, overflow) ==
    IF i > Len(buf)
    THEN [predictors |-> predictors, current |-> current, overflow |-> overflow]
    ELSE LET r == PPredictor_predict(predictors[i], buf[i], previous_2, previous, current)
         IN  p_loop(buf, [predictors EXCEPT ![i] = r.pred], i + 1,
                    previous_2, previous, r.current,
                    \/ overflow
                    \/ predictors[i].k = "Inc"
                         /\ IncPredictor_overflows(predictors[i], current))

\* for (in_value, predictor) in buf.zip(g_predictors.iter_mut())
RECURSIVE g_loop(_, _, _, _, _, _)
g_loop(buf, predictors, i, current, ip_current, gnss_home) ==
    IF i > Len(buf) THEN current
    ELSE g_loop(buf, predictors, i + 1,
                GPredictor_predict(predictors[i], buf[i], current, ip_current, gnss_home),
                ip_current, gnss_home)

Processed(proc, record) == [t |-> "Ok", proc |-> proc, record |-> record]

NoRecord == [kind |-> "NoRecord"]
process_frame_slow_advances(proc, frame) ==
    CASE frame.kind = "IFrame" ->
            IF Len(frame.buf) # Len(proc.i_predictors) THEN Panic("assert_eq")
            ELSE LET cur == i_loop(frame.buf, proc.i_predictors, 1,
                                   proc.ip_history.current)
                     h == History_advance_reset([proc.ip_history EXCEPT !.current = cur])
                 IN  Processed([proc EXCEPT !.ip_history = h],
                               [kind |-> "Main", values |-> History_values(h)])
      [] frame.kind = "PFrame" ->
            IF Len(frame.buf) # Len(proc.p_predictors) THEN Panic("assert_eq")
            ELSE LET r == p_loop(frame.buf, proc.p_predictors, 1,
                                 History_previous_2(proc.ip_history),
                                 History_previous(proc.ip_history),
                                 proc.ip_history.current, FALSE)
                     h == History_advance([proc.ip_history EXCEPT !.current = r.current])
                 IN  IF overflow_checks /\ r.overflow
                     THEN Panic("attempt to add with overflow")
                     ELSE Processed([proc EXCEPT !.ip_history = h,
                                            !.p_predictors = r.predictors],
                               [kind |-> "Main", values |-> History_values(h)])
      [] frame.kind = "HFrame" ->
            IF Len(frame.buf) = 2
            THEN Processed([proc EXCEPT !.gnss_history.gnss_home =
                                << frame.buf[1], frame.buf[2] >>], NoRecord)
            ELSE Processed(proc, NoRecord)
      [] frame.kind = "GFrame" ->
            IF Len(frame.buf) # Len(proc.g_predictors) THEN Panic("assert_eq")
            ELSE IF \E i \in 1..Len(proc.g_predictors) :
                        GPredictor_panics(proc.g_predictors[i])
            THEN Panic("index out of bounds")
            ELSE LET cur == g_loop(frame.buf, proc.g_predictors, 1,
                                   proc.gnss_history.history.current,
                                   proc.ip_history.current,
                                   proc.gnss_history.gnss_home)
                     h == History_advance(
                              [proc.gnss_history.history EXCEPT !.current = cur])
                 IN  Processed([proc EXCEPT !.gnss_history.history = h],
                               [kind |-> "GNSS", values |-> History_values(h)])
      [] frame.kind = "SFrame" ->
            Processed([proc EXCEPT !.ip_history = History_advance(proc.ip_history)],
                      [kind |-> "Slow", values |-> frame.buf])
      [] frame.kind = "Event" ->
            Processed(proc, [kind |-> "Event", event |-> frame.event])

\* LogProcessor::process_frame : the processor after the call and the
\* record it returns, or a panic of one of its assertions
process_frame(proc, frame) ==
    CASE frame.kind = "IFrame" ->
            IF Len(frame.buf) # Len(proc.i_predictors) THEN Panic("assert_eq")
            ELSE LET cur == i_loop(frame.buf, proc.i_predictors, 1,
                                   proc.ip_history.current)
                     h == History_advance_reset([proc.ip_history EXCEPT !.current = cur])
                 IN  Processed([proc EXCEPT !.ip_history = h],
                               [kind |-> "Main", values |-> History_values(h)])
      [] frame.kind = "PFrame" ->
            IF Len(frame.buf) # Len(proc.p_predictors) THEN Panic("assert_eq")
            ELSE LET r == p_loop(frame.buf, proc.p_predictors, 1,
                                 History_previous_2(proc.ip_history),
                                 History_previous(proc.ip_history),
                                 proc.ip_history.current, FALSE)
                     h == History_advance([proc.ip_history EXCEPT !.current = r.current])
                 IN  IF overflow_checks /\ r.overflow
                     THEN Panic("attempt to add with overflow")
                     ELSE Processed([proc EXCEPT !.ip_history = h,
                                            !.p_predictors = r.predictors],
                               [kind |-> "Main", values |-> History_values(h)])
      [] frame.kind = "HFrame" ->
            IF Len(frame.buf) = 2
            THEN Processed([proc EXCEPT !.gnss_history.gnss_home =
                                << frame.buf[1], frame.buf[2] >>], NoRecord)
            ELSE Processed(proc, NoRecord)
      [] frame.kind = "GFrame" ->
            IF Len(frame.buf) # Len(proc.g_predictors) THEN Panic("assert_eq")
            ELSE IF \E i \in 1..Len(proc.g_predictors) :
                        GPredictor_panics(proc.g_predictors[i])
            THEN Panic("index out of bounds")
            ELSE LET cur == g_loop(frame.buf, proc.g_predictors, 1,
                                   proc.gnss_history.history.current,
                                   proc.ip_history.current,
                                   proc.gnss_history.gnss_home)
                     h == History_advance(
                              [proc.gnss_history.history EXCEPT !.current = cur])
                 IN  Processed([proc EXCEPT !.gnss_history.history = h],
                               [kind |-> "GNSS", values |-> History_values(h)])
      [] frame.kind = "SFrame" ->
            Processed(proc, [kind |-> "Slow", values |-> frame.buf])
      [] frame.kind = "Event" ->
            Processed(proc, [kind |-> "Event", event |-> frame.event])

\* ---------------------------------------------------------------------
\* Inputs: parsed headers (HeaderBuilder values) and log bodies
\* ---------------------------------------------------------------------

Name_x == << "x" >>

Name_y == << "y" >>

Name_z == << "z" >>

Name_flags == << "f", "l", "a", "g", "s" >>

Name_GPS_time == << "G", "P", "S", "_", "t" >>

Name_GPS_coord0 == << "G", "P", "S", "_", "c", "[", "0", "]" >>

Name_GPS_coord1 == << "G", "P", "S", "_", "c", "[", "1", "]" >>

Name_GPS_home0 == << "G", "P", "S", "_", "h", "[", "0", "]" >>

Name_GPS_home1 == << "G", "P", "S", "_", "h", "[", "1", "]" >>

NoSettings == [key \in {} |-> 0]

\* varint codecs, every record class declared, P interval 2/1
BuilderVarint ==
    [id |-> "varint", header_len |-> 300,
     p_interval |-> Ratio_new(2, 1), other_headers |-> NoSettings,
     i_field_names |-> << Name_loopIteration, Name_time, Name_x >>,
     i_field_signedness |-> << FALSE, FALSE, TRUE >>,
     i_field_encoding |-> << "UnsignedVB", "UnsignedVB", "SignedVB" >>,
     i_field_predictors |-> << "None", "None", "Around1500" >>,
     p_field_encoding |-> << "Null", "SignedVB", "SignedVB" >>,
     p_field_predictors |-> << "Increment", "StraightLine", "Previous" >>,
     s_field_names |-> << Name_flags >>,
     s_field_signedness |-> << FALSE >>,
     s_field_encoding |-> << "UnsignedVB" >>,
     s_field_predictors |-> << "None" >>,
     g_field_names |-> << Name_GPS_time, Name_GPS_coord0, Name_GPS_coord1 >>,
     g_field_signedness |-> << FALSE, TRUE, TRUE >>,
     g_field_encoding |-> << "UnsignedVB", "SignedVB", "SignedVB" >>,
     g_field_predictors |-> << "LastMainFrameTime", "HomeCoordinates", "HomeCoordinates" >>,
     h_field_names |-> << Name_GPS_home0, Name_GPS_home1 >>,
     h_field_signedness |-> << TRUE, TRUE >>,
     h_field_encoding |-> << "SignedVB", "SignedVB" >>,
     h_field_predictors |-> << "None", "None" >>]

\* tag codecs in full groups, no G fields, one H field, P interval 1/2
BuilderTag ==
    [id |-> "tag", header_len |-> 350,
     p_interval |-> Ratio_new(1, 2), other_headers |-> [minthrottle |-> 1070],
     i_field_names |-> << Name_loopIteration, Name_time, Name_x, Name_y, Name_z >>,
     i_field_signedness |-> << FALSE, FALSE, TRUE, TRUE, TRUE >>,
     i_field_encoding |-> << "UnsignedVB", "UnsignedVB",
                             "Tag2_3S32", "Tag2_3S32", "Tag2_3S32" >>,
     i_field_predictors |-> << "None", "None", "MinThrottle", "None", "None" >>,
     p_field_encoding |-> << "Null", "Tag8_4S16", "Tag8_4S16", "Tag8_4S16", "Tag8_4S16" >>,
     p_field_predictors |-> << "Increment", "Previous", "Average2", "StraightLine", "None" >>,
     s_field_names |-> << Name_flags, Name_x >>,
     s_field_signedness |-> << FALSE, FALSE >>,
     s_field_encoding |-> << "Tag8_8SVB", "Tag8_8SVB" >>,
     s_field_predictors |-> << "None", "None" >>,
     g_field_names |-> << >>,
     g_field_signedness |-> << >>,
     g_field_encoding |-> << >>,
     g_field_predictors |-> << >>,
     h_field_names |-> << Name_GPS_home0 >>,
     h_field_signedness |-> << TRUE >>,
     h_field_encoding |-> << "SignedVB" >>,
     h_field_predictors |-> << "None" >>]

\* an I field with the undecoded Tag2_3SVariable, a G field that is a
\* Tag2_3S32 run of one, no H fields
BuilderOdd ==
    [id |-> "odd", header_len |-> 250,
     p_interval |-> Ratio_new(1, 1), other_headers |-> NoSettings,
     i_field_names |-> << Name_loopIteration, Name_time, Name_y >>,
     i_field_signedness |-> << FALSE, FALSE, TRUE >>,
     i_field_encoding |-> << "UnsignedVB", "UnsignedVB", "Tag2_3SVariable" >>,
     i_field_predictors |-> << "None", "None", "None" >>,
     p_field_encoding |-> << "Null", "Negative14BitVB", "SignedVB" >>,
     p_field_predictors |-> << "Increment", "Previous", "Average2" >>,
     s_field_names |-> << Name_flags >>,
     s_field_signedness |-> << FALSE >>,
     s_field_encoding |-> << "Tag8_8SVB" >>,
     s_field_predictors |-> << "None" >>,
     g_field_names |-> << Name_GPS_time >>,
     g_field_signedness |-> << FALSE >>,
     g_field_encoding |-> << "Tag2_3S32" >>,
     g_field_predictors |-> << "None" >>,
     h_field_names |-> << >>,
     h_field_signedness |-> << >>,
     h_field_encoding |-> << >>,
     h_field_predictors |-> << >>]

\* tag codecs in runs shorter than a full group: two Tag2_3S32 I fields, two
\* Tag8_4S16 P fields
BuilderShort ==
    [id |-> "short", header_len |-> 400,
     p_interval |-> Ratio_new(1, 1), other_headers |-> NoSettings,
     i_field_names |-> << Name_loopIteration, Name_time, Name_x, Name_y >>,
     i_field_signedness |-> << FALSE, FALSE, TRUE, TRUE >>,
     i_field_encoding |-> << "UnsignedVB", "UnsignedVB", "Tag2_3S32", "Tag2_3S32" >>,
     i_field_predictors |-> << "None", "None", "None", "None" >>,
     p_field_encoding |-> << "Null", "SignedVB", "Tag8_4S16", "Tag8_4S16" >>,
     p_field_predictors |-> << "Increment", "Previous", "Previous", "Previous" >>,
     s_field_names |-> << Name_flags >>,
     s_field_signedness |-> << FALSE >>,
     s_field_encoding |-> << "UnsignedVB" >>,
     s_field_predictors |-> << "None" >>,
     g_field_names |-> << >>,
     g_field_signedness |-> << >>,
     g_field_encoding |-> << >>,
     g_field_predictors |-> << >>,
     h_field_names |-> << >>,
     h_field_signedness |-> << >>,
     h_field_encoding |-> << >>,
     h_field_predictors |-> << >>]

Builders == { BuilderVarint, BuilderTag, BuilderOdd, BuilderShort }

\* the byte strings a body is concatenated from: whole frames of every
\* kind, frames cut short, frames with an overlong varint, padding and
\* bytes that start no frame
ChunksOf(builder) ==
    CASE builder.id = "varint" ->
            { << 73, 1, 2, 6 >>, << 80, 2, 2 >>, << 83, 5 >>, << 71, 3, 2, 4 >>,
              << 72, 6, 8 >>, << 69, 0, 5 >>, << 69, 7 >>, << 0 >>, << 255 >>,
              << 73, 128, 128, 128, 128, 128 >>, << 83, 129, 130, 131, 132, 133, 255 >>,
              << 80, 128 >>, << 69, 255, 0 >>, << 69, 13 >>,
              << 69, 255 >> \o EndOfLogTag }
      [] builder.id = "tag" ->
            { << 73, 1, 2, 21 >>, << 73, 1, 2, 192, 1, 2, 3 >>, << 73, 1, 2 >>,
              << 80, 0 >>, << 80, 5, 18 >>, << 80 >>, << 80, 255 >>,
              << 83, 3, 2, 4 >>, << 83 >>, << 71 >>, << 72, 6 >> }
      [] builder.id = "odd" ->
            { << 73, 1, 2 >>, << 80, 5, 3 >>, << 83, 4 >>, << 71, 0 >>,
              << 72 >>, << 255 >> }
      [] builder.id = "short" ->
            { << 73, 1, 2, 21 >>, << 80, 2, 0 >>, << 83, 5 >> }

\* the number of chunks of the longest body
MaxChunks == 3

RECURSIVE Bodies(_, _)
Bodies(chunks, n) ==
    IF n = 0 THEN { << >> }
    ELSE LET shorter == Bodies(chunks, n - 1)
         IN  shorter \cup { b \o c : b \in shorter, c \in chunks }

\* ---------------------------------------------------------------------
\* BlackboxReader (src/lib.rs)
\* ---------------------------------------------------------------------

VARIABLES
    header,                  \* BlackboxReader.header
    input,                   \* the body handed to from_bytes, after the header
    remaining_bytes,         \* BlackboxReader.remaining_bytes
    original_length,         \* BlackboxReader.original_length
    processor,               \* BlackboxReader.processor
    last_values,             \* BlackboxReader.last_values
    last_loop_iteration,     \* BlackboxReader.last_loop_iteration
    last_time,               \* BlackboxReader.last_time
    loop_iteration_field_ix, \* BlackboxReader.loop_iteration_field_ix
    time_field_ix,           \* BlackboxReader.time_field_ix
    pc,                      \* "idle": between calls of next, "loop": inside
                             \* the loop of next, "panicked": a panic unwound
    ret,                     \* what the last call of next returned
    attempt,                 \* the last iteration of the loop of next: the
                             \* offset it started at and what the parser said
    spins,                   \* how many iterations in a row left
                             \* remaining_bytes where it was
    truncated,               \* what the caller saw when next first returned
                             \* None for a truncated input, and whether
                             \* next has returned since (<< >> before)
    hlines,                  \* parse_headers: the header lines not yet read
    hb,                      \* parse_headers: the HeaderBuilder folded so far
    hpc,                     \* "fold": inside fold_many0, "done": from_bytes
                             \* has returned, "off": not followed
    hres,                    \* what from_bytes returned
    raw,                     \* Header::try_from: the raw encodings handed to
                             \* add_encoding so far
    encodings,               \* Header::try_from: the Vec<FieldEncoding> that
                             \* add_encoding builds
    interval,                \* the P interval an IncPredictor followed on
                             \* its own is built with
    inc,                     \* an IncPredictor followed on its own
    snapshot,                \* the Snapshot its predict is called with
    calls,                   \* the calls of predict since it last took a
                             \* new base
    iframe,                  \* the last I-frame: the value it wrote and the
                             \* P-frames since
    ipc,                     \* "new": built, "predicted": predict has
                             \* returned, "written": an I-frame wrote the
                             \* field, "panicked", "off": not followed
    fin,                     \* a function followed on its own: its name and
                             \* the arguments it is called with
    fout,                    \* what it returned
    fpc                      \* "call": about to be called, "done", "off"

\* the variables of from_bytes and of the grouping pass of Header::try_from
hvars == << hlines, hb, hpc, hres >>

gvars == << raw, encodings >>

ivars == << interval, inc, snapshot, calls, iframe, ipc >>

pvars == << fin, fout, fpc >>

rvars == << header, input, remaining_bytes, original_length, processor, last_values,
            last_loop_iteration, last_time, loop_iteration_field_ix, time_field_ix,
            pc, ret, attempt, spins, truncated >>

vars == << header, input, remaining_bytes, original_length, processor, last_values,
           last_loop_iteration, last_time, loop_iteration_field_ix, time_field_ix,
           pc, ret, attempt, spins, truncated, hvars, gvars, ivars, pvars,
           overflow_checks >>

\* from_bytes is not followed: the reader is already built
HeaderOff ==
    /\ hlines = << >>
    /\ hb = << >>
    /\ hpc = "off"
    /\ hres = [t |-> "none"]

\* the grouping pass is not followed
GroupingOff == raw = << >> /\ encodings = << >>

\* no function is followed on its own
PureOff ==
    /\ fin = << >>
    /\ fout = << >>
    /\ fpc = "off"

\* no IncPredictor is followed on its own
IncOff ==
    /\ interval = << >>
    /\ inc = << >>
    /\ snapshot = << >>
    /\ calls = 0
    /\ iframe = << >>
    /\ ipc = "off"

\* the iterations of a loop that never ends, that the model follows
MaxSpin == 2

bytes_read == original_length - Len(remaining_bytes)

NoAttempt == [start |-> -1, t |-> "none", code |-> "none", err_len |-> -1,
              frame |-> "none"]

Pending == [kind |-> "pending"]

ReturnedNone == [kind |-> "None"]

\* from_bytes succeeds: the schema builds without a panic, both named
\* fields are found and LogProcessor::new's assertion holds
from_bytes_ok(builder) ==
    LET h == Header_try_from(builder)
    IN  /\ ~Header_panics(h)
        /\ find_position(h.ip_fields_in_order, Len(h.ip_fields_in_order),
                         Name_loopIteration) >= 0
        /\ find_position(h.ip_fields_in_order, Len(h.ip_fields_in_order), Name_time) >= 0
        /\ Len(h.i_field_predictors) = Len(h.p_field_predictors)

Init ==
    \E builder \in Builders :
      \E body \in Bodies(ChunksOf(builder), MaxChunks) :
        /\ from_bytes_ok(builder)
        /\ header = Header_try_from(builder)
        /\ input = body
        /\ remaining_bytes = body
        /\ original_length = builder.header_len + Len(body)
        /\ processor = LogProcessor_new(header)
        /\ last_values = << >>
        /\ last_loop_iteration = 0
        /\ last_time = 0
        /\ loop_iteration_field_ix =
              find_position(header.ip_fields_in_order, Len(header.ip_fields_in_order),
                            Name_loopIteration)
        /\ time_field_ix =
              find_position(header.ip_fields_in_order, Len(header.ip_fields_in_order),
                            Name_time)
        /\ pc = "idle"
        /\ ret = Pending
        /\ attempt = NoAttempt
        /\ spins = 0
        /\ truncated = << >>
        /\ overflow_checks \in BOOLEAN
        /\ HeaderOff
        /\ GroupingOff
        /\ IncOff
        /\ PureOff

\* what one iteration of the loop finds at remaining_bytes
Parsed == parse_next_frame(header, remaining_bytes)

AttemptOf(r) ==
    [start |-> bytes_read, t |-> r.t,
     code |-> IF r.t \in {"Error", "Failure"} THEN r.code
              ELSE IF r.t = "Panic" THEN r.msg ELSE "none",
     err_len |-> IF r.t \in {"Error", "Failure"} THEN Len(r.input) ELSE -1,
     frame |-> IF r.t = "Ok" THEN r.val.kind ELSE "none"]

advance_past_error_rewinds(e_input, remaining) ==
    IF Len(e_input) > 0 THEN input ELSE remaining

\* self.remaining_bytes after an Error or a Failure (lib.rs 115-117, 120-122)
advance_past_error(e_input, remaining) ==
    IF Len(e_input) > 0 THEN Tail(e_input) ELSE remaining

\* values[self.loop_iteration_field_ix] or values[self.time_field_ix] is out
\* of bounds
MainIndexPanics(values) ==
    loop_iteration_field_ix >= Len(values) \/ time_field_ix >= Len(values)

\* the caller calls next
Call ==
    /\ pc = "idle"
    /\ pc' = "loop"
    /\ ret' = Pending
    /\ attempt' = NoAttempt
    /\ UNCHANGED << hvars, gvars, ivars, pvars, overflow_checks, truncated, header, input, remaining_bytes, original_length, processor,
                    last_values, last_loop_iteration, last_time,
                    loop_iteration_field_ix, time_field_ix, spins >>

\* Ok and process_frame yields a record: next returns it
\* the Ok arm taking last_loop_iteration and last_time from GNSS records too
NextRecord_times_from_gnss ==
    /\ pc = "loop"
    /\ Parsed.t = "Ok"
    /\ LET pr == process_frame(processor, Parsed.val)
       IN  /\ pr.t = "Ok"
           /\ pr.record.kind # "NoRecord"
           /\ pr.record.kind \in {"Main", "GNSS"} => ~MainIndexPanics(pr.record.values)
           /\ remaining_bytes' = Parsed.rest
           /\ processor' = pr.proc
           /\ ret' = pr.record
           /\ last_loop_iteration' =
                 IF pr.record.kind \in {"Main", "GNSS"}
                 THEN pr.record.values[loop_iteration_field_ix + 1]
                 ELSE last_loop_iteration
           /\ last_time' =
                 IF pr.record.kind \in {"Main", "GNSS"}
                 THEN pr.record.values[time_field_ix + 1] ELSE last_time
           /\ last_values' =
                 IF pr.record.kind \in {"Main", "GNSS"}
                 THEN pr.record.values ELSE last_values
    /\ pc' = "idle"
    /\ attempt' = AttemptOf(Parsed)
    /\ spins' = 0
    /\ UNCHANGED << hvars, gvars, ivars, pvars, overflow_checks, truncated, header, input, original_length, loop_iteration_field_ix,
                    time_field_ix >>

NextRecord ==
    /\ pc = "loop"
    /\ Parsed.t = "Ok"
    /\ LET pr == process_frame(processor, Parsed.val)
       IN  /\ pr.t = "Ok"
           /\ pr.record.kind # "NoRecord"
           /\ pr.record.kind = "Main" => ~MainIndexPanics(pr.record.values)
           /\ remaining_bytes' = Parsed.rest
           /\ processor' = pr.proc
           /\ ret' = pr.record
           /\ last_loop_iteration' =
                 IF pr.record.kind = "Main"
                 THEN pr.record.values[loop_iteration_field_ix + 1]
                 ELSE last_loop_iteration
           /\ last_time' =
                 IF pr.record.kind = "Main"
                 THEN pr.record.values[time_field_ix + 1] ELSE last_time
           /\ last_values' =
                 IF pr.record.kind \in {"Main", "GNSS"}
                 THEN pr.record.values ELSE last_values
    /\ pc' = "idle"
    /\ attempt' = AttemptOf(Parsed)
    /\ spins' = 0
    /\ UNCHANGED << hvars, gvars, ivars, pvars, overflow_checks, truncated, header, input, original_length, loop_iteration_field_ix,
                    time_field_ix >>

\* Ok and process_frame yields no record (an H-frame): the loop goes on
\* the H-frame arm handing the decoded values out as a record
NextNoRecord_emits ==
    /\ pc = "loop"
    /\ Parsed.t = "Ok"
    /\ LET pr == process_frame(processor, Parsed.val)
       IN  /\ pr.t = "Ok"
           /\ pr.record.kind = "NoRecord"
           /\ remaining_bytes' = Parsed.rest
           /\ processor' = pr.proc
    /\ pc' = "idle"
    /\ ret' = [kind |-> "Slow", values |-> Parsed.val.buf]
    /\ attempt' = AttemptOf(Parsed)
    /\ spins' = 0
    /\ UNCHANGED << hvars, gvars, ivars, pvars, overflow_checks, truncated, header, input, original_length, last_values, last_loop_iteration,
                    last_time, loop_iteration_field_ix, time_field_ix >>

NextNoRecord ==
    /\ pc = "loop"
    /\ Parsed.t = "Ok"
    /\ LET pr == process_frame(processor, Parsed.val)
       IN  /\ pr.t = "Ok"
           /\ pr.record.kind = "NoRecord"
           /\ remaining_bytes' = Parsed.rest
           /\ processor' = pr.proc
    /\ attempt' = AttemptOf(Parsed)
    /\ spins' = 0
    /\ UNCHANGED << hvars, gvars, ivars, pvars, overflow_checks, truncated, header, input, original_length, last_values, last_loop_iteration,
                    last_time, loop_iteration_field_ix, time_field_ix, pc, ret >>

\* the Error arm returning None, as a strict iterator would
NextError_strict ==
    /\ pc = "loop"
    /\ Parsed.t = "Error"
    /\ pc' = "idle"
    /\ ret' = ReturnedNone
    /\ attempt' = AttemptOf(Parsed)
    /\ spins' = 0
    /\ UNCHANGED << hvars, gvars, ivars, pvars, overflow_checks, truncated, header, input, remaining_bytes, original_length, processor,
                    last_values, last_loop_iteration, last_time,
                    loop_iteration_field_ix, time_field_ix >>

\* Err(nom::Err::Error(e)): skip one byte of e.input when there is one, and
\* go round the loop again
NextError ==
    /\ pc = "loop"
    /\ Parsed.t = "Error"
    /\ Len(Parsed.input) = 0 => spins < MaxSpin
    /\ remaining_bytes' = advance_past_error(Parsed.input, remaining_bytes)
    /\ spins' = IF remaining_bytes' = remaining_bytes THEN spins + 1 ELSE 0
    /\ attempt' = AttemptOf(Parsed)
    /\ UNCHANGED << hvars, gvars, ivars, pvars, overflow_checks, truncated, header, input, original_length, processor, last_values,
                    last_loop_iteration, last_time, loop_iteration_field_ix,
                    time_field_ix, pc, ret >>

\* Err(nom::Err::Failure(e)): the same
NextFailure ==
    /\ pc = "loop"
    /\ Parsed.t = "Failure"
    /\ Len(Parsed.input) = 0 => spins < MaxSpin
    /\ remaining_bytes' = advance_past_error(Parsed.input, remaining_bytes)
    /\ spins' = IF remaining_bytes' = remaining_bytes THEN spins + 1 ELSE 0
    /\ attempt' = AttemptOf(Parsed)
    /\ UNCHANGED << hvars, gvars, ivars, pvars, overflow_checks, truncated, header, input, original_length, processor, last_values,
                    last_loop_iteration, last_time, loop_iteration_field_ix,
                    time_field_ix, pc, ret >>

\* the caller's record of a None returned for a truncated input: the first
\* one notes what the reader shows, a later one that next has returned again
Seen(before, remaining, proc, loop_iteration, time) ==
    IF before = << >>
    THEN [remaining |-> remaining, processor |-> proc,
          last_loop_iteration |-> loop_iteration, last_time |-> time,
          again |-> FALSE]
    ELSE [before EXCEPT !.again = TRUE]

\* the Incomplete arm dropping the frame byte before it returns
NextIncomplete_skips_frame_byte ==
    /\ pc = "loop"
    /\ Parsed.t = "Incomplete"
    /\ pc' = "idle"
    /\ ret' = ReturnedNone
    /\ attempt' = AttemptOf(Parsed)
    /\ spins' = 0
    /\ remaining_bytes' = Tail(remaining_bytes)
    /\ UNCHANGED << hvars, gvars, ivars, pvars, overflow_checks, header, input, original_length, processor,
                    last_values, last_loop_iteration, last_time,
                    loop_iteration_field_ix, time_field_ix >>
    /\ truncated' = Seen(truncated, Len(remaining_bytes'), processor',
                         last_loop_iteration', last_time')

\* the Incomplete arm building a fresh LogProcessor before it returns
NextIncomplete_fresh_processor ==
    /\ pc = "loop"
    /\ Parsed.t = "Incomplete"
    /\ pc' = "idle"
    /\ ret' = ReturnedNone
    /\ attempt' = AttemptOf(Parsed)
    /\ spins' = 0
    /\ processor' = LogProcessor_new(header)
    /\ UNCHANGED << hvars, gvars, ivars, pvars, overflow_checks, header, input, remaining_bytes, original_length,
                    last_values, last_loop_iteration, last_time,
                    loop_iteration_field_ix, time_field_ix >>
    /\ truncated' = Seen(truncated, Len(remaining_bytes'), processor',
                         last_loop_iteration', last_time')

\* Err(nom::Err::Incomplete(_)): next returns None
NextIncomplete ==
    /\ pc = "loop"
    /\ Parsed.t = "Incomplete"
    /\ pc' = "idle"
    /\ ret' = ReturnedNone
    /\ attempt' = AttemptOf(Parsed)
    /\ spins' = 0
    /\ UNCHANGED << hvars, gvars, ivars, pvars, overflow_checks, header, input, remaining_bytes, original_length, processor,
                    last_values, last_loop_iteration, last_time,
                    loop_iteration_field_ix, time_field_ix >>
    /\ truncated' = Seen(truncated, Len(remaining_bytes'), processor',
                         last_loop_iteration', last_time')

\* the panic that follows a frame that parsed: an assertion of
\* process_frame, or the indexing of the Main values ("none": no panic)
PanicAfterParse(frame) ==
    LET pr == process_frame(processor, frame)
    IN  IF pr.t = "Panic" THEN pr.msg
        ELSE IF pr.record.kind = "Main" /\ MainIndexPanics(pr.record.values)
             THEN "index out of bounds" ELSE "none"

\* a panic inside parse_next_frame, or after it in process_frame or in the
\* indexing of the Main values, when remaining_bytes is already assigned
NextPanic ==
    /\ pc = "loop"
    /\ \/ /\ Parsed.t = "Panic"
          /\ attempt' = AttemptOf(Parsed)
          /\ UNCHANGED remaining_bytes
       \/ /\ Parsed.t = "Ok"
          /\ PanicAfterParse(Parsed.val) # "none"
          /\ attempt' = [AttemptOf(Parsed) EXCEPT !.t = "Panic",
                                                  !.code = PanicAfterParse(Parsed.val)]
          /\ remaining_bytes' = Parsed.rest
    /\ pc' = "panicked"
    /\ UNCHANGED << hvars, gvars, ivars, pvars, overflow_checks, truncated, header, input, original_length, processor, last_values,
                    last_loop_iteration, last_time, loop_iteration_field_ix,
                    time_field_ix, ret, spins >>

Next ==
    \/ Call
    \/ NextRecord
    \/ NextNoRecord
    \/ NextError
    \/ NextFailure
    \/ NextIncomplete
    \/ NextPanic

Spec == Init /\ [][Next]_vars

\* ---------------------------------------------------------------------
\* Header lines (src/frame/header.rs, src/frame/mod.rs)
\* ---------------------------------------------------------------------

\* A header line "H <name>:<value>\n" is a record of its name and of the
\* characters of its value.
Line(name, value) == [name |-> name, value |-> value]

\* the Result of the from_dec functions and of map_res
Good(v) == [ok |-> TRUE, v |-> v]

Bad == [ok |-> FALSE]

IsDigits(chars) == chars # << >> /\ \A i \in 1..Len(chars) : to_digit(chars[i]) >= 0

RECURSIVE strip_zeros(_)
strip_zeros(chars) ==
    IF Len(chars) > 1 /\ chars[1] = "0" THEN strip_zeros(Tail(chars)) ELSE chars

\* the decimal digits a are at most the decimal digits b, both without
\* leading zeros
RECURSIVE digits_leq(_, _)
digits_leq(a, b) ==
    IF Len(a) # Len(b) THEN Len(a) < Len(b)
    ELSE IF a = << >> THEN TRUE
    ELSE IF a[1] # b[1] THEN to_digit(a[1]) < to_digit(b[1])
    ELSE digits_leq(Tail(a), Tail(b))

RECURSIVE digits_value(_, _)
digits_value(chars, acc) ==
    IF chars = << >> THEN acc
    ELSE digits_value(Tail(chars), acc * 10 + to_digit(chars[1]))

U16Max == << "6", "5", "5", "3", "5" >>

I16Max == << "3", "2", "7", "6", "7" >>

I16MinMagnitude == << "3", "2", "7", "6", "8" >>

U32Max == << "4", "2", "9", "4", "9", "6", "7", "2", "9", "5" >>

\* from_str_radix(_, 10) of an unsigned type: an optional '+', then digits
\* whose value fits
unsigned_from_dec(bytes, max) ==
    LET digits == IF bytes # << >> /\ bytes[1] = "+" THEN Tail(bytes) ELSE bytes
    IN  IF IsDigits(digits) /\ digits_leq(strip_zeros(digits), max)
        THEN Good(strip_zeros(digits)) ELSE Bad

u16_from_dec(bytes) ==
    IF unsigned_from_dec(bytes, U16Max).ok
    THEN Good(digits_value(unsigned_from_dec(bytes, U16Max).v, 0)) ELSE Bad

\* the value is kept as its digits: it is above what the checker's integers hold
u32_from_dec(bytes) == unsigned_from_dec(bytes, U32Max)

i16_from_dec(bytes) ==
    IF bytes # << >> /\ bytes[1] = "-"
    THEN IF IsDigits(Tail(bytes)) /\ digits_leq(strip_zeros(Tail(bytes)), I16MinMagnitude)
         THEN Good(-digits_value(Tail(bytes), 0)) ELSE Bad
    ELSE IF unsigned_from_dec(bytes, I16Max).ok
         THEN Good(digits_value(unsigned_from_dec(bytes, I16Max).v, 0)) ELSE Bad

HexDigits == { "0", "1", "2", "3", "4", "5", "6", "7", "8", "9",
               "a", "b", "c", "d", "e", "f", "A", "B", "C", "D", "E", "F" }

\* from_str_radix(_, 16) for u32; the value is kept as its digits
u32_from_hex(bytes) ==
    LET digits == IF bytes # << >> /\ bytes[1] = "+" THEN Tail(bytes) ELSE bytes
    IN  IF digits # << >> /\ (\A i \in 1..Len(digits) : digits[i] \in HexDigits)
           /\ Len(strip_zeros(digits)) <= 8
        THEN Good(strip_zeros(digits)) ELSE Bad

str_from_bytes(bytes) == Good(bytes)

bool_from_dec(bytes) ==
    IF u16_from_dec(bytes).ok THEN Good(u16_from_dec(bytes).v # 0) ELSE Bad

EncodingCodes ==
    [c \in {0, 1, 3, 6, 7, 8, 9, 10} |->
        CASE c = 0 -> "SignedVB" [] c = 1 -> "UnsignedVB" [] c = 3 -> "Negative14BitVB"
          [] c = 6 -> "Tag8_8SVB" [] c = 7 -> "Tag2_3S32" [] c = 8 -> "Tag8_4S16"
          [] c = 9 -> "Null" [] c = 10 -> "Tag2_3SVariable"]

field_encoding_from_dec(bytes) ==
    IF u16_from_dec(bytes).ok /\ u16_from_dec(bytes).v \in DOMAIN EncodingCodes
    THEN Good(EncodingCodes[u16_from_dec(bytes).v]) ELSE Bad

PredictorCodes ==
    << "None", "Previous", "StraightLine", "Average2", "MinThrottle", "Motor0",
       "Increment", "HomeCoordinates", "Around1500", "VBatRef", "LastMainFrameTime",
       "MinMotor" >>

field_predictor_from_dec(bytes) ==
    IF u16_from_dec(bytes).ok /\ u16_from_dec(bytes).v < Len(PredictorCodes)
    THEN Good(PredictorCodes[u16_from_dec(bytes).v + 1]) ELSE Bad

\* the position of the first c in chars, 0 when there is none
first_index(chars, c) ==
    IF \E i \in 1..Len(chars) : chars[i] = c
    THEN CHOOSE i \in 1..Len(chars) : chars[i] = c /\ \A j \in 1..(i - 1) : chars[j] # c
    ELSE 0

\* the items between the commas of a value
RECURSIVE split(_)
split(value) ==
    IF first_index(value, ",") = 0 THEN << value >>
    ELSE << SubSeq(value, 1, first_index(value, ",") - 1) >>
            \o split(SubSeq(value, first_index(value, ",") + 1, Len(value)))

\* parse_list followed by tag("\n"): separated_list0 stops in front of the
\* first item that is empty or that the item parser refuses, and the line
\* feed is not there
parse_list(value, parser(_)) ==
    IF value = << >> THEN Good(<< >>)
    ELSE IF \A i \in 1..Len(split(value)) :
                split(value)[i] # << >> /\ parser(split(value)[i]).ok
         THEN Good([i \in 1..Len(split(value)) |-> parser(split(value)[i]).v])
         ELSE Bad

\* some byte after this value is a '/': streaming take_until("/") finds it
slash_follows(rest) ==
    \E i \in 1..Len(rest) : first_index(rest[i].value, "/") > 0

\* parse_u16_ratio_dec_or_inverse_dec; "Panic": Ratio::new with a zero
\* denominator, "Incomplete": no '/' in the rest of the input
parse_u16_ratio_dec_or_inverse_dec(value, rest) ==
    LET slash == first_index(value, "/")
        numer == u16_from_dec(SubSeq(value, 1, slash - 1))
        denom == u16_from_dec(SubSeq(value, slash + 1, Len(value)))
        whole == u16_from_dec(value)
    IN  IF slash > 0 /\ numer.ok /\ denom.ok
        THEN IF denom.v = 0 THEN [t |-> "Panic"]
             ELSE [t |-> "Ok", v |-> Ratio_new(numer.v, denom.v)]
        ELSE IF slash = 0 /\ ~slash_follows(rest) THEN [t |-> "Incomplete"]
        ELSE IF whole.ok
             THEN IF whole.v = 0 THEN [t |-> "Panic"]
                  ELSE [t |-> "Ok", v |-> Ratio_new(1, whole.v)]
             ELSE [t |-> "Error"]

\* the keys parse_header knows and the Frame variant of each
FrameOfKey ==
    [ key \in { "Product", "Data version", "I interval", "P interval", "P ratio",
                "Field I name", "Field I signed", "Field I encoding", "Field I predictor",
                "Field P name", "Field P signed", "Field P encoding", "Field P predictor",
                "Field S name", "Field S signed", "Field S encoding", "Field S predictor",
                "Field G name", "Field G signed", "Field G encoding", "Field G predictor",
                "Field H name", "Field H signed", "Field H encoding", "Field H predictor",
                "gyro_scale", "looptime" } |->
        CASE key = "Product" -> "Product"
          [] key = "Data version" -> "DataVersion"
          [] key = "I interval" -> "IInterval"
          [] key = "P interval" -> "PInterval"
          [] key = "P ratio" -> "PRatio"
          [] key = "Field I name" -> "FieldIName"
          [] key = "Field I signed" -> "FieldISignedness"
          [] key = "Field I encoding" -> "FieldIEncoding"
          [] key = "Field I predictor" -> "FieldIPredictor"
          [] key = "Field P name" -> "FieldPName"
          [] key = "Field P signed" -> "FieldPSignedness"
          [] key = "Field P encoding" -> "FieldPEncoding"
          [] key = "Field P predictor" -> "FieldPPredictor"
          [] key = "Field S name" -> "FieldSName"
          [] key = "Field S signed" -> "FieldSSignedness"
          [] key = "Field S encoding" -> "FieldSEncoding"
          [] key = "Field S predictor" -> "FieldSPredictor"
          [] key = "Field G name" -> "FieldGName"
          [] key = "Field G signed" -> "FieldGSignedness"
          [] key = "Field G encoding" -> "FieldGEncoding"
          [] key = "Field G predictor" -> "FieldGPredictor"
          [] key = "Field H name" -> "FieldHName"
          [] key = "Field H signed" -> "FieldHSignedness"
          [] key = "Field H encoding" -> "FieldHEncoding"
          [] key = "Field H predictor" -> "FieldHPredictor"
          [] key = "gyro_scale" -> "GyroScale"
          [] key = "looptime" -> "LoopTime" ]

RecognisedKeys == DOMAIN FrameOfKey

\* the value of a line of a recognised key, read by the parser of the key
parse_value(name, value, rest) ==
    LET kind == FrameOfKey[name]
        mapped(r) == IF r.ok THEN [t |-> "Ok", v |-> r.v] ELSE [t |-> "Error"]
    IN  CASE kind \in {"Product", "DataVersion"} -> mapped(str_from_bytes(value))
          [] kind = "IInterval" -> mapped(i16_from_dec(value))
          [] kind = "PInterval" -> parse_u16_ratio_dec_or_inverse_dec(value, rest)
          [] kind = "PRatio" -> mapped(u16_from_dec(value))
          [] kind \in {"FieldIName", "FieldPName", "FieldSName", "FieldGName",
                       "FieldHName"} -> mapped(parse_list(value, str_from_bytes))
          [] kind \in {"FieldISignedness", "FieldPSignedness", "FieldSSignedness",
                       "FieldGSignedness", "FieldHSignedness"} ->
                mapped(parse_list(value, bool_from_dec))
          [] kind \in {"FieldIEncoding", "FieldPEncoding", "FieldSEncoding",
                       "FieldGEncoding", "FieldHEncoding"} ->
                mapped(parse_list(value, field_encoding_from_dec))
          [] kind \in {"FieldIPredictor", "FieldPPredictor", "FieldSPredictor",
                       "FieldGPredictor", "FieldHPredictor"} ->
                mapped(parse_list(value, field_predictor_from_dec))
          [] kind = "GyroScale" ->
                IF Len(value) >= 2 /\ SubSeq(value, 1, 2) = << "0", "x" >>
                THEN mapped(u32_from_hex(SubSeq(value, 3, Len(value))))
                ELSE [t |-> "Error"]
          [] kind = "LoopTime" -> mapped(u32_from_dec(value))

\* parse_header on the first of the lines; rest: the lines after it
parse_header(line, rest) ==
    IF line.name \in RecognisedKeys
    THEN IF parse_value(line.name, line.value, rest).t = "Ok"
         THEN [t |-> "Ok",
               frame |-> [k |-> FrameOfKey[line.name],
                          v |-> parse_value(line.name, line.value, rest).v]]
         ELSE [t |-> parse_value(line.name, line.value, rest).t]
    ELSE [t |-> "Ok", frame |-> [k |-> "UnkownHeader", name |-> line.name,
                                 v |-> line.value]]

\* ---------------------------------------------------------------------
\* parse_headers and from_bytes (src/stream/header.rs, src/lib.rs)
\* ---------------------------------------------------------------------

None == [some |-> FALSE]

Some(v) == [some |-> TRUE, v |-> v]

HeaderBuilder_default ==
    [product |-> None, data_version |-> None, i_interval |-> None,
     p_interval |-> None, p_ratio |-> None, gyro_scale |-> None, loop_time |-> None,
     other_headers |-> NoSettings,
     i_field_names |-> << >>, i_field_signedness |-> << >>,
     i_field_encoding |-> << >>, i_field_predictors |-> << >>,
     p_field_encoding |-> << >>, p_field_predictors |-> << >>,
     s_field_names |-> << >>, s_field_signedness |-> << >>,
     s_field_encoding |-> << >>, s_field_predictors |-> << >>,
     g_field_names |-> << >>, g_field_signedness |-> << >>,
     g_field_encoding |-> << >>, g_field_predictors |-> << >>,
     h_field_names |-> << >>, h_field_signedness |-> << >>,
     h_field_encoding |-> << >>, h_field_predictors |-> << >>]

\* a setting as the predictors read it: its number when it is one
setting_of(value) ==
    IF IsDigits(value) /\ Len(value) <= 9 THEN digits_value(value, 0) ELSE value

\* the closure of fold_many0 in parse_headers
fold_header(b, frame) ==
    CASE frame.k = "Product" -> [b EXCEPT !.product = Some(frame.v)]
      [] frame.k = "DataVersion" -> [b EXCEPT !.data_version = Some(frame.v)]
      [] frame.k = "IInterval" -> [b EXCEPT !.i_interval = Some(frame.v)]
      [] frame.k = "FieldIName" -> [b EXCEPT !.i_field_names = frame.v]
      [] frame.k = "FieldIPredictor" -> [b EXCEPT !.i_field_predictors = frame.v]
      [] frame.k = "FieldISignedness" -> [b EXCEPT !.i_field_signedness = frame.v]
      [] frame.k = "FieldIEncoding" -> [b EXCEPT !.i_field_encoding = frame.v]
      [] frame.k = "PInterval" -> [b EXCEPT !.p_interval = Some(frame.v)]
      [] frame.k = "PRatio" -> [b EXCEPT !.p_ratio = Some(frame.v)]
      [] frame.k = "FieldPPredictor" -> [b EXCEPT !.p_field_predictors = frame.v]
      [] frame.k = "FieldPEncoding" -> [b EXCEPT !.p_field_encoding = frame.v]
      [] frame.k = "FieldSName" -> [b EXCEPT !.s_field_names = frame.v]
      [] frame.k = "FieldSPredictor" -> [b EXCEPT !.s_field_predictors = frame.v]
      [] frame.k = "FieldSSignedness" -> [b EXCEPT !.s_field_signedness = frame.v]
      [] frame.k = "FieldSEncoding" -> [b EXCEPT !.s_field_encoding = frame.v]
      [] frame.k = "FieldGName" -> [b EXCEPT !.g_field_names = frame.v]
      [] frame.k = "FieldGPredictor" -> [b EXCEPT !.g_field_predictors = frame.v]
      [] frame.k = "FieldGSignedness" -> [b EXCEPT !.g_field_signedness = frame.v]
      [] frame.k = "FieldGEncoding" -> [b EXCEPT !.g_field_encoding = frame.v]
      [] frame.k = "FieldHName" -> [b EXCEPT !.h_field_names = frame.v]
      [] frame.k = "FieldHPredictor" -> [b EXCEPT !.h_field_predictors = frame.v]
      [] frame.k = "FieldHSignedness" -> [b EXCEPT !.h_field_signedness = frame.v]
      [] frame.k = "FieldHEncoding" -> [b EXCEPT !.h_field_encoding = frame.v]
      [] frame.k = "GyroScale" -> [b EXCEPT !.gyro_scale = Some(frame.v)]
      [] frame.k = "LoopTime" -> [b EXCEPT !.loop_time = Some(frame.v)]
      [] frame.k = "UnkownHeader" ->
            [b EXCEPT !.other_headers =
                [key \in DOMAIN b.other_headers \cup {frame.name} |->
                    IF key = frame.name THEN setting_of(frame.v)
                    ELSE b.other_headers[key]]]
      [] OTHER -> b

\* the keys Header::try_from refuses to do without
MissingHeader(b) ==
    \/ ~b.product.some
    \/ ~b.data_version.some
    \/ ~b.i_interval.some
    \/ ~b.p_interval.some
    \/ ~b.gyro_scale.some
    \/ ~b.loop_time.some

\* from_bytes once fold_many0 has stopped with builder b in front of the
\* lines rest: what it returns, or the panic that leaves it
from_bytes(b, rest) ==
    IF MissingHeader(b) THEN [t |-> "Err", error |-> "ParseHeader"]
    ELSE LET h == Header_try_from([b EXCEPT !.p_interval = b.p_interval.v])
         IN  IF Header_panics(h) THEN [t |-> "Panic", msg |-> "predictor"]
             ELSE IF find_position(h.ip_fields_in_order, Len(h.ip_fields_in_order),
                                   Name_loopIteration) < 0
                     \/ find_position(h.ip_fields_in_order, Len(h.ip_fields_in_order),
                                      Name_time) < 0
             THEN [t |-> "Err", error |-> "NoLoopIterationAndTime"]
             ELSE IF Len(h.i_field_predictors) # Len(h.p_field_predictors)
             THEN [t |-> "Panic", msg |-> "assert_eq"]
             ELSE [t |-> "Ok", header |-> h, remaining_bytes |-> rest]

\* the header lines of a log whose body follows with a frame byte and holds
\* no '/': a well-formed header
RECURSIVE Csv(_)
Csv(items) ==
    IF Len(items) = 1 THEN items[1]
    ELSE items[1] \o << "," >> \o Csv(Tail(items))

BaseHeader ==
    << Line("Product", << "B", "B" >>),
       Line("Data version", << "2" >>),
       Line("I interval", << "3", "2" >>),
       Line("Field I name", Csv(<< Name_loopIteration, Name_time, Name_x >>)),
       Line("Field I signed", << "0", ",", "0", ",", "1" >>),
       Line("Field I predictor", << "0", ",", "0", ",", "8" >>),
       Line("Field I encoding", << "1", ",", "1", ",", "0" >>),
       Line("Field P predictor", << "6", ",", "2", ",", "1" >>),
       Line("Field P encoding", << "9", ",", "0", ",", "0" >>),
       Line("P interval", << "1", "/", "2" >>),
       Line("gyro_scale", << "0", "x", "3", "f" >>),
       Line("looptime", << "1", "2", "5" >>),
       Line("P ratio", << "4" >>),
       Line("Field S name", Name_flags),
       Line("Field S signed", << "0" >>),
       Line("Field S predictor", << "0" >>),
       Line("Field S encoding", << "1" >>),
       Line("minthrottle", << "1", "0", "7", "0" >>),
       Line("Firmware date", << "J", "a", "n", "/", "1" >>) >>

\* lines that take the place of the line of the same name: values outside
\* the grammar of their key, and lists of other lengths
Variants ==
    { Line("I interval", << "3", "x" >>),
      Line("I interval", << "4", "0", "0", "0", "0" >>),
      Line("I interval", << "-", "3", "2", "7", "6", "8" >>),
      Line("P interval", << "2" >>),
      Line("P interval", << "1", "/", "0" >>),
      Line("P interval", << "x", "/", "2" >>),
      Line("P ratio", << "x" >>),
      Line("P ratio", << "6", "5", "5", "3", "6" >>),
      Line("Field I name", Csv(<< Name_loopIteration, Name_x, Name_y >>)),
      Line("Field I name", Csv(<< Name_loopIteration, Name_time, Name_x, Name_y >>)),
      Line("Field I signed", << "0", ",", "0", ",", "1", "," >>),
      Line("Field I encoding", << "1", ",", "1", ",", "2" >>),
      Line("Field I encoding", << "1", ",", "1" >>),
      Line("Field I encoding", << "1", ",", "1", ",", "7", ",", "7" >>),
      Line("Field I predictor", << "0", ",", "0", ",", "1", "2" >>),
      Line("Field I predictor", << "0", ",", "0" >>),
      Line("Field I predictor", << "0", ",", "0", ",", "8", ",", "0" >>),
      Line("Field I predictor", << "0", ",", "0", ",", "1" >>),
      Line("Field P predictor", << "6", ",", "2" >>),
      Line("Field P predictor", << "6", ",", ",", "1" >>),
      Line("Field P encoding", << >>),
      Line("Field S predictor", << "x" >>),
      Line("Field S encoding", << "4" >>),
      Line("gyro_scale", << "3", "f" >>),
      Line("looptime", << "4", "2", "9", "4", "9", "6", "7", "2", "9", "5" >>),
      Line("looptime", << "4", "2", "9", "4", "9", "6", "7", "2", "9", "6" >>),
      Line("minthrottle", << "1", "1", "5", "0" >>) }

\* the header with every line of the name of v replaced by v
Replace(lines, v) ==
    [i \in 1..Len(lines) |-> IF lines[i].name = v.name THEN v ELSE lines[i]]

\* the reader's own variables while from_bytes has not returned
ReaderOff ==
    /\ header = << >>
    /\ input = << >>
    /\ remaining_bytes = << >>
    /\ original_length = 0
    /\ processor = << >>
    /\ last_values = << >>
    /\ last_loop_iteration = 0
    /\ last_time = 0
    /\ loop_iteration_field_ix = 0
    /\ time_field_ix = 0
    /\ pc = "off"
    /\ ret = Pending
    /\ attempt = NoAttempt
    /\ spins = 0
    /\ truncated = << >>

\* from_bytes is called on the first lines of a header in which at most two
\* lines are replaced
HeaderInit ==
    \E v, w \in Variants \cup { BaseHeader[1] } :
      \E k \in 0..Len(BaseHeader) :
        /\ hlines = SubSeq(Replace(Replace(BaseHeader, v), w), 1, k)
        /\ hb = HeaderBuilder_default
        /\ hpc = "fold"
        /\ hres = [t |-> "pending"]
        /\ ReaderOff
        /\ GroupingOff
        /\ IncOff
        /\ PureOff
        /\ overflow_checks = FALSE

\* what parse_header says of the line fold_many0 is at; after the last line
\* comes the body, which does not start with "H "
NextHeader ==
    IF hlines = << >> THEN [t |-> "Error"]
    ELSE parse_header(Head(hlines), Tail(hlines))

\* fold_many0: a line that parses is folded into the builder
FoldHeader ==
    /\ hpc = "fold"
    /\ NextHeader.t = "Ok"
    /\ hb' = fold_header(hb, NextHeader.frame)
    /\ hlines' = Tail(hlines)
    /\ UNCHANGED << hpc, hres, rvars, gvars, ivars, pvars, overflow_checks >>

\* fold_many0 stops at the first Error, and from_bytes goes on with the
\* builder folded so far
HeadersEnd ==
    /\ hpc = "fold"
    /\ NextHeader.t = "Error"
    /\ hres' = from_bytes(hb, hlines)
    /\ hpc' = "done"
    /\ UNCHANGED << hlines, hb, rvars, gvars, ivars, pvars, overflow_checks >>

\* fold_many0 passes Incomplete on, from_bytes maps it
HeadersIncomplete ==
    /\ hpc = "fold"
    /\ NextHeader.t = "Incomplete"
    /\ hres' = [t |-> "Err", error |-> "Incomplete"]
    /\ hpc' = "done"
    /\ UNCHANGED << hlines, hb, rvars, gvars, ivars, pvars, overflow_checks >>

\* Ratio::new panics on a zero denominator
HeadersPanic ==
    /\ hpc = "fold"
    /\ NextHeader.t = "Panic"
    /\ hres' = [t |-> "Panic", msg |-> "denominator == 0"]
    /\ hpc' = "done"
    /\ UNCHANGED << hlines, hb, rvars, gvars, ivars, pvars, overflow_checks >>

HeaderNext ==
    \/ FoldHeader
    \/ HeadersEnd
    \/ HeadersIncomplete
    \/ HeadersPanic

HeaderSpec == HeaderInit /\ [][HeaderNext]_vars

\* ---------------------------------------------------------------------
\* The grouping pass of Header::try_from: add_encoding is called once per
\* entry of a raw encoding list (src/stream/header.rs 109-173)
\* ---------------------------------------------------------------------

\* the raw encodings a header line can name
RawFieldEncoding == { EncodingCodes[c] : c \in DOMAIN EncodingCodes }

\* the longest raw encoding list followed
MaxRaw == 10

\* the most runs of equal entries in a raw encoding list followed
MaxRuns == 3

\* the number of runs of consecutive equal entries of a list
Runs(list) == Cardinality({ i \in 1..Len(list) : i = 1 \/ list[i] # list[i - 1] })

GroupInit ==
    /\ ReaderOff
    /\ HeaderOff
    /\ IncOff
    /\ PureOff
    /\ overflow_checks = FALSE
    /\ raw = << >>
    /\ encodings = << >>

\* one iteration of the izip! loop, for one of the two encoding lists
AddEncoding ==
    /\ Len(raw) < MaxRaw
    /\ \E new_encoding \in RawFieldEncoding :
         /\ Runs(Append(raw, new_encoding)) <= MaxRuns
         /\ raw' = Append(raw, new_encoding)
         /\ encodings' = add_encoding(encodings, new_encoding)
    /\ UNCHANGED << rvars, hvars, ivars, pvars, overflow_checks >>

GroupNext == AddEncoding

GroupSpec == GroupInit /\ [][GroupNext]_vars

\* ---------------------------------------------------------------------
\* IncPredictor followed on its own: the calls of predict that the P-frames
\* of a log make, between writes of I-frames to the field it predicts
\* (src/stream/predictor.rs 332-366)
\* ---------------------------------------------------------------------

\* the P interval headers followed: "P interval:a/b" gives a/b
PIntervals ==
    { Ratio_new(2, 1), Ratio_new(1, 2), Ratio_new(1, 1), Ratio_new(3, 2),
      Ratio_new(2, 3), Ratio_new(1, 40000), Ratio_new(3, 40000), Ratio_new(1, 65535) }

\* the values an I-frame leaves in the field
IValues == { 0, 1, 100 }

\* the most calls of predict followed after one new base
MaxCalls == 4

IncInit ==
    \E p_interval \in PIntervals :
      /\ interval = p_interval
      /\ inc = IncPredictor_new(0, p_interval)
      /\ snapshot = [current |-> << 0 >>]
      /\ calls = 0
      /\ iframe = [seen |-> FALSE, x |-> 0, k |-> 0]
      /\ ipc = "new"
      /\ overflow_checks \in BOOLEAN
      /\ ReaderOff
      /\ HeaderOff
      /\ GroupingOff
      /\ PureOff

\* predict takes a new base when the field is not what it last wrote
IncResync == snapshot.current[inc.field_ix + 1] # inc.expected_value

\* a P-frame: predict returns
IncPredict ==
    /\ ipc \in { "new", "predicted", "written" }
    /\ IncResync \/ calls < MaxCalls
    /\ ~(overflow_checks /\ IncPredictor_overflows(inc, snapshot.current))
    /\ inc' = IncPredictor_predict(inc, snapshot.current).pred
    /\ snapshot' = [snapshot EXCEPT
                       !.current = IncPredictor_predict(inc, snapshot.current).current]
    /\ calls' = IF IncResync THEN 1 ELSE calls + 1
    /\ iframe' = [iframe EXCEPT !.k = @ + 1]
    /\ ipc' = "predicted"
    /\ UNCHANGED << rvars, hvars, gvars, pvars, interval, overflow_checks >>

\* a P-frame: running_sum += increment panics
IncOverflowPanic ==
    /\ ipc \in { "new", "predicted", "written" }
    /\ IncResync \/ calls < MaxCalls
    /\ overflow_checks
    /\ IncPredictor_overflows(inc, snapshot.current)
    /\ ipc' = "panicked"
    /\ UNCHANGED << rvars, hvars, gvars, pvars, interval, overflow_checks, inc, snapshot, calls, iframe >>

\* an I-frame: its predictor writes the field
IFrameWrites ==
    /\ ipc \in { "new", "predicted", "written" }
    /\ \E value \in IValues :
         /\ snapshot' = [snapshot EXCEPT !.current[inc.field_ix + 1] = value]
         /\ iframe' = [seen |-> TRUE, x |-> value, k |-> 0]
    /\ ipc' = "written"
    /\ UNCHANGED << rvars, hvars, gvars, pvars, interval, overflow_checks, inc, calls >>

IncNext == IncPredict \/ IncOverflowPanic \/ IFrameWrites

IncSpec == IncInit /\ [][IncNext]_vars

\* ---------------------------------------------------------------------
\* StraightLinePredictor::predict and AveragePredictor::predict followed on
\* their own, on history values up to the ends of the i64 range: a
\* StraightLine field grows with the square of the number of P-frames and
\* passes 2^63 after some 2^16 frames of residual 2^31
\* ---------------------------------------------------------------------

\* the history values followed: 0, 1, -1, -3, 2^62, -2^62, i64::MAX, i64::MIN
I64Values ==
    { i64(0), i64(1), i64(-1), i64(-3),
      << 0, 0, 0, 16384 >>, << 0, 0, 0, 49152 >>,
      << 65535, 65535, 65535, 32767 >>, << 0, 0, 0, 32768 >> }

\* the residuals followed
Residuals == { i64(0), i64(1), i64(-2) }

WrapInit ==
    /\ \E f \in { "StraightLine", "Average" } :
         \E previous \in I64Values, previous_2 \in I64Values, value \in Residuals :
            fin = [f |-> f, value |-> value, previous_2 |-> previous_2,
                   previous |-> previous]
    /\ fout = << >>
    /\ fpc = "call"
    /\ overflow_checks \in BOOLEAN
    /\ ReaderOff
    /\ HeaderOff
    /\ GroupingOff
    /\ IncOff

\* what predict computes for the call
Predicted ==
    IF fin.f = "StraightLine"
    THEN StraightLinePredictor_predict(fin.value, fin.previous_2, fin.previous)
    ELSE AveragePredictor_predict(fin.value, fin.previous_2, fin.previous)

\* predict returns
PredictReturns ==
    /\ fpc = "call"
    /\ ~(overflow_checks /\ Predicted.overflow)
    /\ fout' = [t |-> "Ok", v |-> Predicted.v]
    /\ fpc' = "done"
    /\ UNCHANGED << fin, rvars, hvars, gvars, ivars, overflow_checks >>

\* an operation of predict overflows in a build with overflow checks
PredictPanics ==
    /\ fpc = "call"
    /\ overflow_checks
    /\ Predicted.overflow
    /\ fout' = Panic("attempt to add with overflow")
    /\ fpc' = "done"
    /\ UNCHANGED << fin, rvars, hvars, gvars, ivars, overflow_checks >>

WrapNext == PredictReturns \/ PredictPanics

WrapSpec == WrapInit /\ [][WrapNext]_vars

\* ---------------------------------------------------------------------
\* A G field with the HomeCoordinates predictor followed on its own: the
\* predictor Header::try_from builds for its name
\* (src/stream/header.rs 224-234) and the first call of its predict
\* (src/stream/predictor.rs 463-473)
\* ---------------------------------------------------------------------

\* the characters of the G field names followed
NameChars == { "c", "[", "]", "0", "1", "2", "9" }

\* the longest G field name followed
MaxName == 3

GFieldNames == UNION { [1..n -> NameChars] : n \in 0..MaxName }

HomeInit ==
    /\ \E name \in GFieldNames, value \in { 0, 5, -5 } :
         fin = [f |-> "HomeCoordinates", name |-> name, value |-> value,
                gnss_home |-> << 100, 200 >>]
    /\ fout = << >>
    /\ fpc = "call"
    /\ overflow_checks = FALSE
    /\ ReaderOff
    /\ HeaderOff
    /\ GroupingOff
    /\ IncOff

\* Header::try_from builds the predictor of the field
HomeBuild ==
    /\ fpc = "call"
    /\ fin.f = "HomeCoordinates"
    /\ fout' = [pred |-> AnyGPredictor_new("HomeCoordinates", 0, sub_ix(fin.name),
                                           << >>, 0)]
    /\ fpc' = "built"
    /\ UNCHANGED << fin, rvars, hvars, gvars, ivars, overflow_checks >>

\* a G-frame: predict writes the field
HomePredict ==
    /\ fpc = "built"
    /\ ~GPredictor_panics(fout.pred)
    /\ fout' = [pred |-> fout.pred,
                current |-> GPredictor_predict(fout.pred, fin.value, << 0 >>, << >>,
                                               fin.gnss_home)]
    /\ fpc' = "done"
    /\ UNCHANGED << fin, rvars, hvars, gvars, ivars, overflow_checks >>

\* a G-frame: gnss_home[self.gnss_home_ix] is out of bounds
HomePanics ==
    /\ fpc = "built"
    /\ GPredictor_panics(fout.pred)
    /\ fpc' = "panicked"
    /\ UNCHANGED << fin, fout, rvars, hvars, gvars, ivars, overflow_checks >>

HomeNext == HomeBuild \/ HomePredict \/ HomePanics

HomeSpec == HomeInit /\ [][HomeNext]_vars

\* ---------------------------------------------------------------------
\* The field codecs and take_varint followed on their own
\* (src/frame/mod.rs): one call of FieldEncoding::parse or of take_varint
\* on a byte string
\* ---------------------------------------------------------------------

\* the bytes a varint is drawn from: with and without the continuation bit
VarintBytes == { 0, 1, 15, 127, 128, 255 }

MaxVarintLen == 6

VarintInputs == UNION { [1..n -> VarintBytes] : n \in 0..MaxVarintLen }

\* payloads after a Tag2_3S32 header byte
Payload_a == << 1, 130, 255, 4, 133, 6, 135, 8, 9, 10, 11, 12, 13 >>

Payload_b == << 191, 32, 31, 127, 128, 0, 254, 64, 255, 255, 255, 255, 7 >>

Tag2_3S32Inputs ==
    { << byte1 >> \o SubSeq(payload, 1, n) :
        byte1 \in 128..255, payload \in { Payload_a, Payload_b }, n \in 0..13 }

CodecInit ==
    /\ \/ \E f \in { "take_varint", "Negative14BitVB" }, bytes \in VarintInputs :
            fin = [f |-> f, input |-> bytes]
       \/ \E bytes \in Tag2_3S32Inputs : fin = [f |-> "Tag2_3S32", input |-> bytes]
    /\ fout = << >>
    /\ fpc = "call"
    /\ overflow_checks = FALSE
    /\ ReaderOff
    /\ HeaderOff
    /\ GroupingOff
    /\ IncOff

\* FieldEncoding::parse of one field
ParseField ==
    /\ fpc = "call"
    /\ fin.f \in { "Negative14BitVB", "Tag2_3S32" }
    /\ fout' = FieldEncoding_parse(Enc(fin.f, 0), fin.input)
    /\ fpc' = "done"
    /\ UNCHANGED << fin, rvars, hvars, gvars, ivars, overflow_checks >>

\* take_varint
TakeVarint ==
    /\ fpc = "call"
    /\ fin.f = "take_varint"
    /\ fout' = take_varint_u32(fin.input)
    /\ fpc' = "done"
    /\ UNCHANGED << fin, rvars, hvars, gvars, ivars, overflow_checks >>

CodecNext == ParseField \/ TakeVarint

CodecSpec == CodecInit /\ [][CodecNext]_vars

\* ---------------------------------------------------------------------
\* Properties of the record iterator
\* ---------------------------------------------------------------------

\* the length of the header that from_bytes consumed
header_length == original_length - Len(input)

\* the bytes the last iteration of the loop started at
AttemptInput == SubSeq(input, (attempt.start - header_length) + 1, Len(input))

\* the last iteration reported a soft error
SoftError == attempt.t \in {"Error", "Failure"}

\* the bytes a cut frame is completed with in TruncatedFrame
MaxExtension == 9

Extensions ==
    { [i \in 1..n |-> 0] : n \in 1..MaxExtension }
      \cup { SubSeq(EndOfLogTag, i, Len(EndOfLogTag)) : i \in 1..Len(EndOfLogTag) }

\* the input ends in the middle of a frame: it does not hold a whole frame,
\* and some bytes appended to it complete the frame that starts it
TruncatedFrame(h, bytes) ==
    /\ bytes # << >>
    /\ parse_next_frame(h, bytes).t # "Ok"
    /\ \E ext \in Extensions : parse_next_frame(h, bytes \o ext).t = "Ok"

FrameBytes == { ByteI, ByteP, ByteS, ByteG, ByteH, ByteE, BytePadding }

EventCodes == { 0, 13, 14, 15, 30, 255 }

\* C1: every round of the loop of next that does not return leaves
\* bytes_read() strictly larger than it found it, so next never retries at
\* the same offset, also after an error reported at the end of the input.
C1_ForwardProgress ==
    [][(pc = "loop" /\ pc' = "loop") => bytes_read' > bytes_read]_vars

\* C2: a decode attempt that starts with every input byte consumed makes
\* next return None (no panic, no further looping).
C2_ExhaustedInputReturnsNone ==
    (attempt.t # "none" /\ attempt.start = original_length)
        => (pc = "idle" /\ ret = ReturnedNone)

\* C3: a decode attempt on an input that ends in the middle of a frame makes
\* next return None with bytes_read() at the offset of the frame's first byte.
C3_TruncationReturnsNone ==
    (attempt.t # "none" /\ TruncatedFrame(header, AttemptInput))
        => (pc = "idle" /\ ret = ReturnedNone /\ bytes_read = attempt.start)

\* C4: a round of the loop whose frame fails to decode (Error, Failure or
\* Incomplete) leaves the processor (main history, GNSS history, GNSS home,
\* the predictors' state) and last_loop_iteration, last_time as they were.
C4_FailedFrameLeavesHistory ==
    [][(pc = "loop" /\ attempt'.t \in {"Error", "Failure", "Incomplete"})
          => (processor' = processor /\ last_loop_iteration' = last_loop_iteration
              /\ last_time' = last_time)]_vars

\* a frame failed to decode after Main records had left their values in the
\* history
C4_Witness ==
    /\ attempt.t \in {"Error", "Failure", "Incomplete"}
    /\ last_time # 0
    /\ History_previous(processor.ip_history)
          # History_previous_2(processor.ip_history)

\* C5: a decode attempt at a byte that starts no frame is a soft error: next
\* does not panic, and goes round its loop again one byte further.
C5_UnknownByteIsSoftError ==
    (attempt.t # "none" /\ AttemptInput # << >> /\ AttemptInput[1] \notin FrameBytes)
        => (pc = "loop" /\ SoftError /\ bytes_read = attempt.start + 1)

\* C6: a decode attempt at an E-frame whose discriminator is none of 0, 13,
\* 14, 15, 30, 255 is a soft error: no Event is returned and next does not
\* panic but goes round its loop again.
C6_UnknownEventIsSoftError ==
    (/\ attempt.t # "none"
     /\ Len(AttemptInput) >= 2
     /\ AttemptInput[1] = ByteE
     /\ AttemptInput[2] \notin EventCodes)
        => (pc = "loop" /\ SoftError)

C8_FatalErrorTerminates ==
    attempt.code \in {"TooLarge", "unimplemented"}
        => (pc = "idle" /\ ret = ReturnedNone)

\* C9: after a soft error that is reported with input left, in a frame that
\* starts at offset k, the next decode attempt starts at offset k + 1.  (An
\* error reported with no input left is the case of C1.)
C9_ResumesOneByteOn ==
    (SoftError /\ attempt.err_len > 0) => bytes_read = attempt.start + 1

\* C10: when next returns a Main record made from an I-frame, previous and
\* previous2 of the main history both equal the returned values.
C10_IFrameResetsHistory ==
    (pc = "idle" /\ ret.kind = "Main" /\ attempt.frame = "IFrame")
        => /\ History_previous(processor.ip_history) = ret.values
           /\ History_previous_2(processor.ip_history) = ret.values

\* a Main record was returned from an I-frame in the body that followed an
\* odd number of P-frames (the slots of previous and previous2 are swapped)
C10_Witness ==
    /\ pc = "idle"
    /\ ret.kind = "Main"
    /\ attempt.frame = "IFrame"
    /\ processor.ip_history.previous_ix = 0
    /\ attempt.start > header_length

\* next has just returned a Main record made from a frame of this kind
MainFrom(kind) == pc = "idle" /\ ret.kind = "Main" /\ attempt.frame = kind

\* C11: a step of next that returns a Main record made from a P-frame leaves
\* previous of the main history equal to the returned values, and previous2
\* equal to what previous was before the step.
C11_PFrameShiftsHistory ==
    [][(pc = "loop" /\ MainFrom("PFrame")')
          => /\ History_previous(processor'.ip_history) = ret'.values
             /\ History_previous_2(processor'.ip_history)
                   = History_previous(processor.ip_history)]_vars

\* a Main record was returned from the second of two consecutive P-frames
\* (the slots are swapped back) and differs from the one before it
C11_Witness ==
    /\ MainFrom("PFrame")
    /\ processor.ip_history.previous_ix = 1
    /\ History_previous(processor.ip_history)
          # History_previous_2(processor.ip_history)
    /\ History_previous_2(processor.ip_history) # Zeros(Len(ret.values))

\* C12: in a step of next that returns a Main record, every field whose I
\* predictor is a constant holds, for an I-frame, the constant plus the
\* residual decoded for it, and every field whose P predictor is Previous
\* holds, for a P-frame, the residual plus the field's value in previous as it
\* was before the frame; previous is the preceding Main record, for a step
\* that returns no Main record leaves it alone.
C12_ValueIsPrediction ==
    [][/\ (pc = "loop" /\ MainFrom("IFrame")')
            => \A i \in 1..Len(processor.i_predictors) :
                  processor.i_predictors[i].k = "AddConstant"
                     => ret'.values[i]
                           = processor.i_predictors[i].base + Parsed.val.buf[i]
       /\ (pc = "loop" /\ MainFrom("PFrame")')
            => \A i \in 1..Len(processor.p_predictors) :
                  processor.p_predictors[i].k = "Previous"
                     => ret'.values[i]
                           = History_previous(processor.ip_history)[i]
                                + Parsed.val.buf[i]
       /\ (pc = "loop" /\ ~(pc' = "idle" /\ ret'.kind = "Main"))
            => History_previous(processor'.ip_history)
                  = History_previous(processor.ip_history)]_vars

\* the I-frame gave 1503 for a field predicted around 1500, and the P-frame
\* that follows, with residual 1 and predictor Previous, gives 1504
C12_Witness ==
    /\ MainFrom("PFrame")
    /\ header.i_field_predictors[3] = [k |-> "AddConstant", field_ix |-> 2, base |-> 1500]
    /\ header.p_field_predictors[3].k = "Previous"
    /\ History_previous_2(processor.ip_history)[3] = 1503
    /\ ret.values[3] = 1504

\* the GNSS home of the processor
gnss_home == processor.gnss_history.gnss_home

\* the iteration of the loop that starts here decodes an H-frame
DecodesHFrame == pc = "loop" /\ Parsed.t = "Ok" /\ Parsed.val.kind = "HFrame"

\* C13: an iteration of next that decodes an H-frame returns no record (next
\* stays in its loop), sets the GNSS home to the frame's values when there
\* are exactly two of them and leaves it alone otherwise; the histories are
\* not touched, and no other iteration changes the GNSS home.
C13_HFrameSetsHome ==
    [][/\ DecodesHFrame
            => /\ pc' = "loop" /\ ret' = ret
               /\ gnss_home' = IF Len(Parsed.val.buf) = 2
                               THEN << Parsed.val.buf[1], Parsed.val.buf[2] >>
                               ELSE gnss_home
               /\ processor'.ip_history = processor.ip_history
               /\ processor'.gnss_history.history = processor.gnss_history.history
       /\ ~DecodesHFrame => gnss_home' = gnss_home]_vars

\* an H-frame of two values has set the GNSS home, and next is still in its
\* loop
C13_Witness ==
    /\ attempt.frame = "HFrame"
    /\ pc = "loop"
    /\ ret = Pending
    /\ gnss_home = << 3, 4 >>

\* this state is the return of a Main record
ReturnsMain == pc = "idle" /\ ret.kind = "Main"

\* C14: last_loop_iteration and last_time are 0 when the reader is built; a
\* step of next that returns a Main record sets them to the record's values
\* at the indices of the fields named loopIteration and time, and every
\* other step (a GNSS, Slow or Event record, an H-frame, a failed decode
\* attempt) leaves them as they were.
C14_LastMainTimes ==
    /\ last_loop_iteration = 0 /\ last_time = 0
    /\ [][/\ (pc = "loop" /\ ReturnsMain')
               => /\ last_loop_iteration' = ret'.values[loop_iteration_field_ix + 1]
                  /\ last_time' = ret'.values[time_field_ix + 1]
                  /\ header.ip_fields_in_order[loop_iteration_field_ix + 1]
                        = Name_loopIteration
                  /\ header.ip_fields_in_order[time_field_ix + 1] = Name_time
          /\ ~(pc = "loop" /\ ReturnsMain')
               => /\ last_loop_iteration' = last_loop_iteration
                  /\ last_time' = last_time]_vars

\* a GNSS record was returned after a Main record and left the two values
\* of that Main record in place
C14_Witness ==
    /\ pc = "idle"
    /\ ret.kind = "GNSS"
    /\ last_loop_iteration = 1
    /\ last_time = 2
    /\ ret.values[time_field_ix + 1] # last_time

\* C15: an I- or P-frame that decodes successfully makes next return a Main
\* record with exactly one value per declared main field, whatever the length
\* of the runs of Tag2_3S32 and Tag8_4S16 fields of the schema.
C15_OneValuePerField ==
    attempt.frame \in {"IFrame", "PFrame"}
        => (ReturnsMain /\ Len(ret.values) = Len(header.ip_fields_in_order))

\* C20: in a step of next that returns a Main record made from a P-frame,
\* every field whose P predictor is Average2 holds the residual decoded for
\* it plus the floor of half the sum of the field's values in previous and
\* previous2 as they were before the frame.
C20_Average2IsFloor ==
    [][(pc = "loop" /\ MainFrom("PFrame")')
          => \A i \in 1..Len(processor.p_predictors) :
                processor.p_predictors[i].k = "Average"
                   => ret'.values[i]
                         = ((History_previous(processor.ip_history)[i]
                               + History_previous_2(processor.ip_history)[i]) \div 2)
                              + Parsed.val.buf[i]]_vars

\* C20 as the code has it: in a step of next that returns a Main record made
\* from a P-frame, every field whose P predictor is Average2 holds the
\* residual decoded for it plus half the sum of the field's values in previous
\* and previous2 as they were before the frame, the half rounded toward zero:
\* exact for an even sum, (sum - 1) / 2 for an odd sum above zero and
\* (sum + 1) / 2 for an odd sum below zero.
C20_Average2Truncates ==
    [][(pc = "loop" /\ MainFrom("PFrame")')
          => \A i \in 1..Len(processor.p_predictors) :
                processor.p_predictors[i].k = "Average"
                   => LET sum == History_previous(processor.ip_history)[i]
                                   + History_previous_2(processor.ip_history)[i]
                          avg == ret'.values[i] - Parsed.val.buf[i]
                      IN  \/ 2 * avg = sum
                          \/ sum > 0 /\ 2 * avg = sum - 1
                          \/ sum < 0 /\ 2 * avg = sum + 1]_vars

\* the third of three P-frames with residual -2 for a field predicted by
\* Average2: after -2 and -3, whose sum is -5, it gives -2 - 2 = -4
C20_Witness ==
    /\ MainFrom("PFrame")
    /\ processor.p_predictors[3].k = "Average"
    /\ input = << 80, 5, 3, 80, 5, 3, 80, 5, 3 >>
    /\ History_previous_2(processor.ip_history)[3] = -3
    /\ ret.values[3] = -4

\* ---------------------------------------------------------------------
\* Properties of from_bytes
\* ---------------------------------------------------------------------

\* from_bytes has returned, and fold_many0 had stopped at a line of a
\* recognised key whose value is outside the grammar of the key
StoppedAtBadValue ==
    /\ hpc = "done"
    /\ hlines # << >>
    /\ Head(hlines).name \in RecognisedKeys
    /\ parse_header(Head(hlines), Tail(hlines)).t = "Error"

\* C16: when the header holds a line of a recognised key whose value does
\* not match the grammar of the key, from_bytes returns the ParseHeader
\* error; it does not return a reader whose body starts at that line.
C16_BadValueIsParseHeader ==
    StoppedAtBadValue => hres = [t |-> "Err", error |-> "ParseHeader"]

\* C17: from_bytes never panics on the assertion of LogProcessor::new, and
\* the header of a reader it returns has as many I predictors and as many P
\* predictors as main fields.
C17_PredictorsMatchFields ==
    hpc = "done"
        => /\ ~(hres.t = "Panic" /\ hres.msg = "assert_eq")
           /\ hres.t = "Ok"
                => /\ Len(hres.header.i_field_predictors)
                         = Len(hres.header.ip_fields_in_order)
                   /\ Len(hres.header.p_field_predictors)
                         = Len(hres.header.ip_fields_in_order)

\* ---------------------------------------------------------------------
\* Properties of the grouping pass
\* ---------------------------------------------------------------------

\* the number of fields a group decodes
group_width(g) == IF g.n = 0 THEN 1 ELSE g.n

\* the number of raw entries before group i
RECURSIVE group_start(_, _)
group_start(groups, i) ==
    IF i = 1 THEN 0 ELSE group_start(groups, i - 1) + group_width(groups[i - 1])

\* C18: every grouped tag encoding has n between 1 and its maximum, covers
\* exactly n consecutive raw entries of its own encoding and ends only at its
\* maximum, at another encoding or at the end of the list; an encoding that
\* is no tag encoding stands alone with no width; the widths of all groups
\* sum to the number of fields.
C18_GroupsCoverRuns ==
    /\ group_start(encodings, Len(encodings) + 1) = Len(raw)
    /\ \A i \in 1..Len(encodings) :
         LET g == encodings[i]
             start == group_start(encodings, i)
         IN  /\ group_max(g.e) = 0 => g.n = 0
             /\ group_max(g.e) > 0 => g.n >= 1 /\ g.n <= group_max(g.e)
             /\ start + group_width(g) <= Len(raw)
             /\ \A j \in (start + 1)..(start + group_width(g)) : raw[j] = g.e
             /\ (i < Len(encodings) /\ g.n < group_max(g.e)) => encodings[i + 1].e # g.e

\* a run of nine Tag8_8SVB entries has become a group of eight and a group of
\* one, after an entry that is never grouped
C18_Witness ==
    /\ Len(raw) = 10
    /\ encodings = << Enc("SignedVB", 0), Enc("Tag8_8SVB", 8), Enc("Tag8_8SVB", 1) >>

\* ---------------------------------------------------------------------
\* Properties of IncPredictor
\* ---------------------------------------------------------------------

\* floor(k * step) for step = 1 / p_interval
floor_steps(k, p_interval) == (k * p_interval.denom) \div p_interval.numer

\* C19: the k-th call of predict after a new base writes
\* base + floor(k * step) to the field, where step = 1 / p_interval.
C19_IncrementEmitsFloor ==
    ipc = "predicted"
        => snapshot.current[inc.field_ix + 1] = inc.base + floor_steps(calls, interval)

\* a P interval whose sums stay far inside the u16 range
SmallInterval == interval.numer <= 3 /\ interval.denom <= 3

\* C28: after an I-frame sets an Increment-predicted field to x, the k-th
\* of the consecutive P-frames that follow writes x + floor(k * step) to the
\* field, whatever frames came before the I-frame, also when x equals the
\* value the predictor last wrote
C28_IncrementRestartsAtIFrame ==
    (ipc = "predicted" /\ iframe.seen /\ SmallInterval)
        => snapshot.current[inc.field_ix + 1]
              = iframe.x + floor_steps(iframe.k, interval)

\* ---------------------------------------------------------------------
\* Properties of the predictor arithmetic
\* ---------------------------------------------------------------------

\* the floor of half the sum of two i64, computed without the sum
i64_floor_average(a, b) ==
    i64_wrapping_add(i64_wrapping_add(i64_shr1(a), i64_shr1(b)),
                     i64((a[1] % 2) * (b[1] % 2)))

\* half the sum of two i64 rounded toward zero, computed without the sum
i64_average(a, b) ==
    IF (a[1] + b[1]) % 2 = 1 /\ i64_is_negative(i64_floor_average(a, b))
    THEN i64_wrapping_add(i64_floor_average(a, b), i64(1))
    ELSE i64_floor_average(a, b)

\* C21: predict never panics; StraightLine writes 2 * previous - previous2
\* + residual modulo 2^64; Average2 writes the residual plus the average of
\* previous and previous2 taken without overflow, modulo 2^64.
C21_ArithmeticWraps ==
    fpc = "done" /\ fin.f \in { "StraightLine", "Average" }
        => /\ fout.t = "Ok"
           /\ fin.f = "StraightLine"
                => fout.v = i64_wrapping_add(
                                i64_wrapping_sub(
                                    i64_wrapping_add(fin.previous, fin.previous),
                                    fin.previous_2),
                                fin.value)
           /\ fin.f = "Average"
                => fout.v = i64_wrapping_add(i64_average(fin.previous, fin.previous_2),
                                             fin.value)

\* ---------------------------------------------------------------------
\* Properties of the HomeCoordinates predictor
\* ---------------------------------------------------------------------

\* the position of the first '[' of a name that has a character after it,
\* 0 when there is none
bracket(name) ==
    IF \E i \in 1..(Len(name) - 1) : name[i] = "[" /\ \A j \in 1..(i - 1) : name[j] # "["
    THEN CHOOSE i \in 1..(Len(name) - 1) : name[i] = "[" /\ \A j \in 1..(i - 1) : name[j] # "["
    ELSE 0

\* C22: for a G field with the HomeCoordinates predictor whose name has a
\* decimal digit after its first '[', the home index is 0 when that digit is
\* '0' and 1 otherwise, and the first G-frame writes home[index] + residual.
C22_HomeIndexIsZeroOrOne ==
    (fpc \in { "built", "done", "panicked" } /\ fin.f = "HomeCoordinates"
       /\ bracket(fin.name) > 0 /\ to_digit(fin.name[bracket(fin.name) + 1]) >= 0)
        => /\ fout.pred.gnss_home_ix
                 = (IF fin.name[bracket(fin.name) + 1] = "0" THEN 0 ELSE 1)
           /\ fpc # "panicked"
           /\ fpc = "done"
                => fout.current[1]
                      = fin.gnss_home[fout.pred.gnss_home_ix + 1] + fin.value

\* ---------------------------------------------------------------------
\* Properties of the field codecs
\* ---------------------------------------------------------------------

\* the low 14 bits of n, sign-extended from bit 13
low14_signed(n) ==
    IF (n.lo % 16384) >= 8192 THEN (n.lo % 16384) - 16384 ELSE n.lo % 16384

\* C23: for every 32-bit varint value n the Negative14BitVB codec yields the
\* negation of the low 14 bits of n sign-extended from bit 13: bits 14 and
\* above of n do not affect the result, and n = 0 yields 0
C23_Negative14BitIgnoresHighBits ==
    (fpc = "done" /\ fin.f = "Negative14BitVB" /\ take_varint_u32(fin.input).t = "Ok")
        => /\ fout.t = "Ok"
           /\ fout.val = [k |-> "Signed",
                          v |-> -(low14_signed(take_varint_u32(fin.input).val))]

\* the low six bits of a byte as a signed value
signed6(byte) == IF byte % 64 >= 32 THEN (byte % 64) - 64 ELSE byte % 64

Mode10 == fpc = "done" /\ fin.f = "Tag2_3S32" /\ fin.input[1] \div 64 = 2

\* C24 as the specification states it: with mode selector 10 the three
\* values are 6-bit signed values taken one from each of the three bytes
\* that follow the header byte, so the header byte and three bytes are consumed
C24_Mode10ThreeFollowingBytes ==
    (Mode10 /\ Len(fin.input) >= 4)
        => fout = Ok(SubSeq(fin.input, 5, Len(fin.input)),
                     SignedTriple(signed6(fin.input[2]), signed6(fin.input[3]),
                                  signed6(fin.input[4])))

\* C24: with mode selector 10 the first value is the low six bits of the
\* header byte itself and the other two are the low six bits of the two bytes
\* that follow, each as a 6-bit signed value: the header byte and two bytes
\* are consumed
C24_Mode10HeaderAndTwoBytes ==
    (Mode10 /\ Len(fin.input) >= 3)
        => fout = Ok(SubSeq(fin.input, 4, Len(fin.input)),
                     SignedTriple(signed6(fin.input[1]), signed6(fin.input[2]),
                                  signed6(fin.input[3])))

C24_Witness ==
    /\ Mode10
    /\ Len(fin.input) = 5
    /\ fout.t = "Ok"
    /\ fout.val.v = << -1, -1, -32 >>
    /\ Len(fout.rest) = 2

Header0xC6 == fpc = "done" /\ fin.f = "Tag2_3S32" /\ fin.input[1] = 198

\* C25 as the specification states it: the header byte 0xC6 selects the
\* widths i24, i16, i32 in order: three, then two, then four little-endian
\* bytes after the header byte, each value sign-extended from its width
C25_HeaderC6IsI24I16I32 ==
    (Header0xC6 /\ Len(fin.input) >= 10)
        => fout = Ok(SubSeq(fin.input, 11, Len(fin.input)),
                     SignedTriple(
                        fin.input[2] + 256 * fin.input[3] + 65536 * fin.input[4]
                          - (IF fin.input[4] >= 128 THEN 16777216 ELSE 0),
                        fin.input[5] + 256 * fin.input[6]
                          - (IF fin.input[6] >= 128 THEN 65536 ELSE 0),
                        fin.input[7] + 256 * fin.input[8] + 65536 * fin.input[9]
                          + 16777216 * (fin.input[10]
                                          - (IF fin.input[10] >= 128 THEN 256 ELSE 0))))

\* C25: the selectors of a mode 11 header byte are read from its lowest bit
\* pair upwards, so 0xC6 (11 00 01 10) selects i24, then i16, then i8: three,
\* then two, then one little-endian byte after the header byte, each value
\* sign-extended from its width
C25_HeaderC6IsI24I16I8 ==
    (Header0xC6 /\ Len(fin.input) >= 7)
        => fout = Ok(SubSeq(fin.input, 8, Len(fin.input)),
                     SignedTriple(
                        fin.input[2] + 256 * fin.input[3] + 65536 * fin.input[4]
                          - (IF fin.input[4] >= 128 THEN 16777216 ELSE 0),
                        fin.input[5] + 256 * fin.input[6]
                          - (IF fin.input[6] >= 128 THEN 65536 ELSE 0),
                        fin.input[7] - (IF fin.input[7] >= 128 THEN 256 ELSE 0)))

C25_Witness ==
    /\ Header0xC6
    /\ Len(fin.input) = 11
    /\ fout.t = "Ok"
    /\ fout.val.v = << -32255, -31484, 6 >>
    /\ Len(fout.rest) = 4

\* 128 * x + b as a u32
times128_plus(x, b) ==
    u32((x.hi * 128 + (x.lo * 128 + b) \div U16) % U16, (x.lo * 128 + b) % U16)

\* the little-endian 7-bit-per-byte value of bytes i..k, as a u32
RECURSIVE le7_value(_, _, _)
le7_value(bytes, i, k) ==
    IF i > k THEN u32(0, 0)
    ELSE times128_plus(le7_value(bytes, i + 1, k), bytes[i] % 128)

\* the minimal little-endian 7-bit encoding of a u32
RECURSIVE minimal_varint(_)
minimal_varint(n) ==
    IF n.hi = 0 /\ n.lo < 128 THEN << n.lo >>
    ELSE << 128 + (n.lo % 128) >>
           \o minimal_varint(u32(n.hi \div 128, (n.lo \div 128) + (n.hi % 128) * 512))

\* the first k bytes are a varint: k - 1 bytes with the high bit set, then
\* one with the high bit clear
varint_of_length(bytes, k) ==
    /\ k <= Len(bytes)
    /\ \A i \in 1..(k - 1) : bytes[i] >= 128
    /\ bytes[k] < 128

\* C26: take_varint accepts every encoding of one to five bytes whose last
\* byte has the high bit clear, consumes exactly those bytes and returns
\* their little-endian 7-bit-per-byte value as a u32 (its low 32 bits, when
\* the fifth byte carries more than four); the minimal encoding
\* of the u32 it returns decodes to that u32; an input whose first five
\* bytes all have the high bit set is rejected with a Failure
C26_VarintDecodes ==
    (fpc = "done" /\ fin.f = "take_varint")
        => /\ \A k \in 1..5 :
                varint_of_length(fin.input, k)
                    => /\ fout = Ok(SubSeq(fin.input, k + 1, Len(fin.input)),
                                    le7_value(fin.input, 1, k))
                       /\ take_varint_u32(minimal_varint(fout.val))
                             = Ok(<< >>, fout.val)
           /\ (Len(fin.input) >= 5 /\ \A i \in 1..5 : fin.input[i] >= 128)
                => fout.t = "Failure"

C26_Witness ==
    /\ fpc = "done"
    /\ fin = [f |-> "take_varint", input |-> << 255, 255, 255, 255, 15 >>]
    /\ fout = Ok(<< >>, u32(65535, 65535))
    /\ minimal_varint(fout.val) = fin.input

\* ---------------------------------------------------------------------
\* Properties of the record iterator: Slow and Event records, progress
\* through the input
\* ---------------------------------------------------------------------

DecodesSFrame == pc = "loop" /\ Parsed.t = "Ok" /\ Parsed.val.kind = "SFrame"

DecodesEvent == pc = "loop" /\ Parsed.t = "Ok" /\ Parsed.val.kind = "Event"

\* C27: an S-frame is emitted as a Slow record holding its decoded residuals
\* unchanged, and processing an S-frame or an E-frame leaves the main
\* history, the GNSS history, the GNSS home and the predictor state unchanged
C27_SlowAndEventLeaveProcessor ==
    [][/\ DecodesSFrame
            => /\ pc' = "idle"
               /\ ret' = [kind |-> "Slow", values |-> Parsed.val.buf]
               /\ processor' = processor
       /\ DecodesEvent
            => /\ pc' = "idle"
               /\ ret' = [kind |-> "Event", event |-> Parsed.val.event]
               /\ processor' = processor]_vars

\* an S-frame after a Main record: the Slow record carries the decoded value
C27_Witness ==
    /\ pc = "idle"
    /\ attempt.frame = "SFrame"
    /\ ret = [kind |-> "Slow", values |-> << 5 >>]
    /\ last_loop_iteration = 1
    /\ processor.ip_history # LogProcessor_new(header).ip_history

ReturnsRecord == pc = "idle" /\ ret.kind \in { "Main", "GNSS", "Slow", "Event" }

\* the bytes from the start of the last decode attempt to bytes_read
AttemptSpan ==
    SubSeq(input, (attempt.start - header_length) + 1, bytes_read - header_length)

\* the bytes are one whole frame and no shorter prefix of them is
whole_frame(bytes) ==
    /\ parse_next_frame(header, bytes).t = "Ok"
    /\ parse_next_frame(header, bytes).rest = << >>
    /\ \A n \in 1..(Len(bytes) - 1) :
          parse_next_frame(header, SubSeq(bytes, 1, n)).t # "Ok"

\* C29: across any sequence of calls of next, bytes_read never decreases and
\* never exceeds the input length, and whenever next returns a record
\* bytes_read is the offset just past that record's frame
C29_BytesReadMonotone ==
    /\ [](header_length <= bytes_read /\ bytes_read <= original_length)
    /\ [][/\ bytes_read' >= bytes_read
          /\ (pc = "loop" /\ ReturnsRecord')
                => /\ attempt'.start = bytes_read
                   /\ bytes_read' > bytes_read
                   /\ whole_frame(AttemptSpan')]_vars

\* a record returned after an earlier frame, with input left
C29_Witness ==
    /\ ReturnsRecord
    /\ ret.kind = "Main"
    /\ attempt.start > header_length
    /\ bytes_read < original_length
    /\ whole_frame(AttemptSpan)

\* C30: once next has returned None because the input is truncated, every
\* further call of next returns None again (its loop meets the same
\* Incomplete and nothing else) and leaves bytes_read, the histories, the
\* GNSS home and last_loop_iteration / last_time unchanged
C30_TruncatedNoneIsStable ==
    truncated # << >>
        => /\ bytes_read = original_length - truncated.remaining
           /\ processor = truncated.processor
           /\ last_loop_iteration = truncated.last_loop_iteration
           /\ last_time = truncated.last_time
           /\ pc \in { "idle", "loop" }
           /\ pc = "idle" => ret = ReturnedNone
           /\ pc = "loop" => Parsed.t = "Incomplete"

\* a second None after a truncated frame that follows a Main record
C30_Witness ==
    /\ truncated # << >>
    /\ truncated.again
    /\ pc = "idle"
    /\ ret = ReturnedNone
    /\ attempt.t = "Incomplete"
    /\ last_loop_iteration = 1
    /\ header_length < bytes_read /\ bytes_read < original_length

====
